---- MODULE Spec2Model ----
(***************************************************************************)
(* Model of the Nebula Python SDK, writes and reads: Nebula (client.py) and *)
(* AsyncNebula (async_client.py).  One client runs one call at a time;     *)
(* every network exchange is two steps: the client issues a request (the   *)
(* request is appended to log) and later receives the response, which the  *)
(* remote service (the environment) chooses.                               *)
(***************************************************************************)
EXTENDS Integers, Sequences, FiniteSets, TLC

VARIABLES
    client,   \* "sync" (Nebula) or "async" (AsyncNebula)
    op,       \* the top-level call in progress: [name, memory, memories, id]
    pc,       \* position of the call
    cur,      \* the Memory store_memory is working on
    ctx,      \* who called store_memory: "top", "new_group", "other"
    actx,     \* who called _append_to_memory: "direct", "first", "batch"
    log,      \* requests issued by the call so far, in order
    resp,     \* the last response received
    mapped,   \* what the transport layer made of the last response
    retval,   \* return value of the store_memory that just returned
    outcome,  \* result of the top-level call
    server,   \* the remote service: existing ids, their chunks, id counter
    batch,    \* locals of store_memories
    calls     \* completed calls, in order

vars == <<client, op, pc, cur, ctx, actx, log, resp, mapped, retval, outcome,
          server, batch, calls>>

----------------------------------------------------------------------------
(* Bounds *)

MaxBatch == 3      \* longest list given to store_memories
MaxCalls == 2      \* calls in one session of SpecConv
MaxNew == 3        \* identifiers the service can assign

----------------------------------------------------------------------------
(* Python values *)

None == "None"

\* truthiness of a str | None value
Truthy(x) == x # None /\ x # ""

Clients == {"sync", "async"}
Collections == {"c1", "c2"}
Roles == {None, "user", "assistant"}

\* A content value: a str, a list of parts, or something else.  "repr" is
\* the str that str() makes of a list or of another object.
Str(t) == [kind |-> "str", text |-> t, parts |-> <<>>]
List(ps) == [kind |-> "list", text |-> "", parts |-> ps]
Other == [kind |-> "other", text |-> "42", parts |-> <<>>]
NoContent == [kind |-> "absent", text |-> "", parts |-> <<>>]

\* One element of a list content: a plain str, a dict (with or without a
\* "type" key) or a content dataclass (always has a type attribute).
Part(pk, type, body, role) == [pk |-> pk, type |-> type, body |-> body, role |-> role]
StrPart(t) == Part("str", None, Str(t), None)
DictPart(type, data) == Part("dict", type, Str(data), None)
DataclassPart(type, data) == Part("dataclass", type, Str(data), None)
MsgDict(content, role) == Part("dict", None, content, role)

\* bool(content)
ContentTruthy(c) ==
    CASE c.kind = "str" -> c.text # ""
      [] c.kind = "list" -> Len(c.parts) > 0
      [] OTHER -> TRUE

\* str(content)
StrOf(c) ==
    CASE c.kind = "str" -> c
      [] c.kind = "list" -> [kind |-> "repr", text |-> "list", parts |-> c.parts]
      [] OTHER -> [kind |-> "repr", text |-> c.text, parts |-> <<>>]

\* str(content or "")
StrOrEmpty(c) == IF ContentTruthy(c) THEN StrOf(c) ELSE Str("")

\* An authority value: absent, a number (kept in tenths: 4 is 0.4), a str
\* that float() parses, a NaN, or a value float() raises on.
NoAuthority == [kind |-> "none", tenths |-> 0]
Num(t) == [kind |-> "num", tenths |-> t]
NumStr(t) == [kind |-> "numstr", tenths |-> t]
NaN == [kind |-> "nan", tenths |-> 0]
NonNumeric == [kind |-> "bad", tenths |-> 0]

Memory(c, content, role, id) ==
    [collection_id |-> c, content |-> content, role |-> role, memory_id |-> id,
     authority |-> NoAuthority]

MemoryWithAuthority(m, a) == [m EXCEPT !.authority = a]

----------------------------------------------------------------------------
(* Requests *)

Msg(content, role) == [content |-> content, role |-> role]

\* authority: the authority entry of the metadata the payload carries
Payload(coll, field, messages, value) ==
    [collection |-> coll, field |-> field, messages |-> messages, value |-> value,
     authority |-> NoAuthority]

\* kind: what the request asks for; via: the code path that sends it
\* ("make_request" = _make_request/_make_request_async, "post" = the bare
\* httpx post of AsyncNebula.store_memory); id: the identifier in the URL.
Req(kind, via, id, payload) == [kind |-> kind, via |-> via, id |-> id, payload |-> payload]

MsgsOf(parts) == [i \in DOMAIN parts |-> Msg(parts[i].body, parts[i].role)]

----------------------------------------------------------------------------
(* Exceptions *)

Exc(name, status, id, entity) == [exc |-> name, status |-> status, id |-> id, entity |-> entity]
ClientError == Exc("NebulaClientException", 0, None, None)
NotFound(id, entity) == Exc("NebulaNotFoundException", 404, id, entity)
NoExc == Exc("none", 0, None, None)

----------------------------------------------------------------------------
(* Responses and the transport layer *)

SuccessStatuses == {200, 202}
ErrorStatuses == {400, 401, 404, 429, 500}

\* An HTTP response: its status and, for a create, where the assigned
\* identifier sits in the body (under the "results" wrapper, under which of
\* the keys "id" and "engram_id").  kind "transport" is a request that never
\* got a response (connection refused, timeout).
Http(status, wrapped, keys, id) ==
    [kind |-> "http", status |-> status, wrapped |-> wrapped, keys |-> keys, id |-> id]
TransportFailure ==
    [kind |-> "transport", status |-> 0, wrapped |-> FALSE, keys |-> {}, id |-> None]
NoResp == [kind |-> "none", status |-> 0, wrapped |-> FALSE, keys |-> {}, id |-> None]

\* _make_request / _make_request_async: the exception raised for a response,
\* NoExc when the parsed body is returned.
MakeRequest(r) ==
    CASE r.kind = "transport" -> ClientError
      [] r.status \in {200, 202} -> NoExc
      [] r.status = 401 -> Exc("NebulaAuthenticationException", 401, None, None)
      [] r.status = 429 -> Exc("NebulaRateLimitException", 429, None, None)
      [] r.status = 400 -> Exc("NebulaValidationException", 400, None, None)
      [] OTHER -> Exc("NebulaException", r.status, None, None)

\* The bare self._client.post of AsyncNebula.store_memory: any status other
\* than 200/202 raises NebulaException, a transport failure is not caught.
BarePost(r) ==
    CASE r.kind = "transport" -> Exc("httpx.RequestError", 0, None, None)
      [] r.status \in {200, 202} -> NoExc
      [] OTHER -> Exc("NebulaException", r.status, None, None)

Transport(q, r) == IF q.via = "post" THEN BarePost(r) ELSE MakeRequest(r)

NotFoundOn404_Unconverted(e, id, entity) == e

\* except NebulaException as e: if e.status_code == 404: raise NotFound
NotFoundOn404(e, id, entity) == IF e.status = 404 THEN NotFound(id, entity) ELSE e

----------------------------------------------------------------------------
(* The remote service *)

Marker == "__new__::"
Ids == {"m1", Marker \o "c1"}
NewIdSeq == <<"n1", "n2", "n3", "n4", "n5", "n6">>
NewIds == {NewIdSeq[i] : i \in 1..MaxNew}
AllIds == Ids \cup NewIds

Chunk(content, role) == [content |-> content, role |-> role]

ServerInit ==
    [exists |-> {"m1", "ch1"}, chunks |-> [i \in AllIds |-> <<>>], next |-> 1]

\* What a payload adds to a memory: one chunk per message (with its role),
\* one chunk for a raw text or for supplied chunks/parts (without a role).
ChunksOf(p) ==
    CASE p.field = "messages" ->
            [i \in DOMAIN p.messages |-> Chunk(p.messages[i].content, p.messages[i].role)]
      [] p.field \in {"raw_text", "chunks", "content_parts"} -> <<Chunk(p.value, None)>>
      [] OTHER -> <<>>

\* The service after it has accepted request q.
ServerApply(s, q) ==
    CASE q.kind \in {"create_conversation", "create_document"} ->
            [s EXCEPT !.exists = @ \cup {NewIdSeq[s.next]},
                      !.chunks[NewIdSeq[s.next]] = ChunksOf(q.payload),
                      !.next = @ + 1]
      [] q.kind = "append" ->
            [s EXCEPT !.chunks[q.id] = @ \o ChunksOf(q.payload)]
      [] q.kind = "delete" -> [s EXCEPT !.exists = @ \ {q.id}]
      [] OTHER -> s

\* Bodies a successful create may carry.
BodyShapes ==
    {<<TRUE, {"id"}>>, <<TRUE, {"engram_id"}>>, <<TRUE, {"id", "engram_id"}>>,
     <<TRUE, {}>>, <<FALSE, {}>>}

\* The responses the service may give request q in state s.  It accepts a
\* create while it has identifiers left, and an identifier-addressed request
\* only for an identifier it knows; it may refuse anything.
Responses(s, q) ==
    {TransportFailure}
    \cup {Http(st, TRUE, {}, None) : st \in ErrorStatuses}
    \cup (IF q.kind \in {"create_conversation", "create_document"}
          THEN IF s.next <= MaxNew
               THEN {Http(st, b[1], b[2], NewIdSeq[s.next]) :
                        st \in SuccessStatuses, b \in BodyShapes}
               ELSE {}
          ELSE IF q.id \in s.exists
               THEN {Http(st, TRUE, {}, None) : st \in SuccessStatuses}
               ELSE {})

Accepted(r) == r.kind = "http" /\ r.status \in SuccessStatuses

----------------------------------------------------------------------------
(* store_memory and _append_to_memory: what the client does before it     *)
(* sends.  A decision is either an exception raised locally or a request.  *)

Raise(e) == [act |-> "raise", exc |-> e, req |-> Req("none", "none", None, Payload(None, "none", <<>>, NoContent))]
Send(q) == [act |-> "send", exc |-> NoExc, req |-> q]

\* isinstance(content, str)
IsStr(c) == c.kind \in {"str", "repr"}
\* isinstance(content, list)
IsList(c) == c.kind = "list"

\* _append_to_memory, sync: the payload field chosen for the content.
SyncAppendPayload(m) ==
    LET c == m.content IN
    CASE IsList(c) /\ Len(c.parts) > 0 /\ c.parts[1].pk = "dict" ->
            Payload(m.collection_id, "messages", MsgsOf(c.parts), c)
      [] IsList(c) -> Payload(m.collection_id, "chunks", <<>>, c)
      [] IsStr(c) /\ Truthy(m.role) ->
            Payload(m.collection_id, "messages", <<Msg(c, m.role)>>, NoContent)
      [] IsStr(c) -> Payload(m.collection_id, "raw_text", <<>>, c)
      [] OTHER -> Payload(m.collection_id, "none", <<>>, NoContent)

\* _append_to_memory, async: a str content is always sent as raw_text.
AsyncAppendPayload(m) ==
    LET c == m.content IN
    CASE IsList(c) /\ Len(c.parts) > 0 /\ c.parts[1].pk = "dict" ->
            Payload(m.collection_id, "messages", MsgsOf(c.parts), c)
      [] IsList(c) -> Payload(m.collection_id, "chunks", <<>>, c)
      [] IsStr(c) -> Payload(m.collection_id, "raw_text", <<>>, c)
      [] OTHER -> Payload(m.collection_id, "none", <<>>, NoContent)

AppendPayload(cl, m) ==
    IF cl = "sync" THEN SyncAppendPayload(m) ELSE AsyncAppendPayload(m)

AppendDecision_AlwaysSend(cl, id, m) ==
    Send(Req("append", "make_request", id, AppendPayload(cl, m)))

\* _append_to_memory up to its request: content of another shape raises
\* NebulaClientException before anything is sent.
AppendDecision(cl, id, m) ==
    IF IsList(m.content) \/ IsStr(m.content)
    THEN Send(Req("append", "make_request", id, AppendPayload(cl, m)))
    ELSE Raise(ClientError)

\* is_multimodal of Nebula.store_memory
IsMultimodal(c) ==
    IsList(c) /\ Len(c.parts) > 0 /\ c.parts[1].pk = "dict" /\ c.parts[1].type # None

\* Conversation creation.  Nebula sends the first message inside the create
\* request; AsyncNebula posts a create without messages.
CreateConversationRequest(cl, m) ==
    IF cl = "sync"
    THEN Req("create_conversation", "make_request", None,
             Payload(m.collection_id, "messages",
                     IF ContentTruthy(m.content) /\ Truthy(m.role)
                     THEN <<Msg(IF IsMultimodal(m.content) THEN m.content
                                ELSE StrOf(m.content), m.role)>>
                     ELSE <<>>,
                     NoContent))
    ELSE Req("create_conversation", "post", None,
             Payload(m.collection_id, "none", <<>>, NoContent))

\* One content part in API format (Nebula.store_memory, document branch).
PartToApi(p) ==
    CASE p.pk = "dataclass" -> Part("dict", p.type, p.body, p.role)
      [] p.pk = "dict" -> p
      [] OTHER -> Part("dict", "text", StrOf(p.body), None)

\* float(memory.authority): the number, or "raises"
Float(a) ==
    CASE a.kind \in {"num", "numstr"} -> Num(a.tenths)
      [] a.kind = "nan" -> NaN
      [] OTHER -> [kind |-> "raises", tenths |-> 0]

DocAuthority_Unchecked(a) ==
    IF a.kind = "none" THEN NoAuthority
    ELSE IF Float(a).kind = "raises" THEN NoAuthority
    ELSE Float(a)

\* the authority entry of doc_metadata: set only if authority is not None,
\* float() succeeds and 0.0 <= auth_val <= 1.0 (false for a NaN)
DocAuthority(a) ==
    IF a.kind = "none" THEN NoAuthority
    ELSE IF Float(a).kind = "num" /\ 0 <= Float(a).tenths /\ Float(a).tenths <= 10
         THEN Float(a)
         ELSE NoAuthority

\* Document creation.
CreateDocumentDecision(cl, m) ==
    IF cl = "sync" /\ IsList(m.content)
    THEN Send(Req("create_document", "make_request", None,
                  [Payload(m.collection_id, "content_parts", <<>>,
                           List([i \in DOMAIN m.content.parts |->
                                    PartToApi(m.content.parts[i])]))
                    EXCEPT !.authority = DocAuthority(m.authority)]))
    ELSE IF StrOrEmpty(m.content) = Str("")
         THEN Raise(ClientError)
         ELSE Send(Req("create_document",
                       IF cl = "sync" THEN "make_request" ELSE "post", None,
                       [Payload(m.collection_id, "raw_text", <<>>,
                                StrOrEmpty(m.content))
                         EXCEPT !.authority = DocAuthority(m.authority)]))

\* store_memory from its entry to its first request.
StoreMemoryDecision(cl, m) ==
    IF Truthy(m.memory_id) THEN AppendDecision(cl, m.memory_id, m)
    ELSE IF Truthy(m.role) THEN Send(CreateConversationRequest(cl, m))
    ELSE CreateDocumentDecision(cl, m)

----------------------------------------------------------------------------
(* State *)

\* a read model (MemoryResponse, Collection): its id and its main field
ReadModel(id, content) == [id |-> id, content |-> content]
NoModel == ReadModel(None, None)

NoOutcome ==
    [kind |-> "none", value |-> None, values |-> <<>>, exc |-> NoExc, model |-> NoModel]
Returned(v) ==
    [kind |-> "ok", value |-> v, values |-> <<>>, exc |-> NoExc, model |-> NoModel]
ReturnedList(vs) ==
    [kind |-> "ok", value |-> None, values |-> vs, exc |-> NoExc, model |-> NoModel]
ReturnedModel(m) ==
    [kind |-> "ok", value |-> None, values |-> <<>>, exc |-> NoExc, model |-> m]
Raised(e) ==
    [kind |-> "error", value |-> None, values |-> <<>>, exc |-> e, model |-> NoModel]

NoMemory == Memory(None, NoContent, None, None)
NoOp == [name |-> "idle", memories |-> <<>>, id |-> None]
NoBatch ==
    [groups |-> <<>>, others |-> <<>>, gi |-> 1, oi |-> 1, conv_id |-> None,
     results |-> <<>>, dest |-> <<>>]

Last(s) == s[Len(s)]

InitWith(cl) ==
    /\ client = cl
    /\ op = NoOp
    /\ pc = "idle"
    /\ cur = NoMemory
    /\ ctx = "top"
    /\ actx = "direct"
    /\ log = <<>>
    /\ resp = NoResp
    /\ mapped = NoExc
    /\ retval = None
    /\ outcome = NoOutcome
    /\ server = ServerInit
    /\ batch = NoBatch
    /\ calls = <<>>

Init == \E cl \in Clients : InitWith(cl)

----------------------------------------------------------------------------
(* How store_memory ends: it returns to its caller or an exception leaves   *)
(* the whole call (nothing on the way catches it).                          *)

\* raise: the exception propagates to the caller of the top-level call
Fail(e) ==
    /\ pc' = "done"
    /\ outcome' = Raised(e)
    /\ UNCHANGED <<batch, retval>>

\* return v from store_memory; w is the identifier of the memory the service
\* wrote the content to (kept for the record, the client does not see it)
SMReturn(v, w) ==
    CASE ctx = "top" ->
            /\ pc' = "done"
            /\ outcome' = Returned(v)
            /\ UNCHANGED batch
            /\ retval' = v
      [] ctx = "new_group" ->
            \* conv_id = self.store_memory(...)
            /\ pc' = "sms_append"
            /\ batch' = [batch EXCEPT !.conv_id = v]
            /\ UNCHANGED outcome
            /\ retval' = v
      [] OTHER ->
            \* results.append(self.store_memory(m))
            /\ pc' = "sms_others"
            /\ batch' = [batch EXCEPT
                            !.results = Append(@, v),
                            !.dest[batch.others[batch.oi]] =
                                w,
                            !.oi = @ + 1]
            /\ UNCHANGED outcome
            /\ retval' = v

----------------------------------------------------------------------------
(* store_memory *)

\* client.store_memory(memory) is called
CallStoreMemory(m) ==
    /\ pc = "idle"
    /\ op' = [name |-> "store_memory", memories |-> <<m>>, id |-> None]
    /\ cur' = m
    /\ ctx' = "top"
    /\ pc' = "sm_entry"
    /\ UNCHANGED <<client, actx, log, resp, mapped, retval, outcome, server, batch, calls>>

\* store_memory runs up to its first request (or raises before sending)
StoreMemoryEntry ==
    /\ pc = "sm_entry"
    /\ LET d == StoreMemoryDecision(client, cur) IN
        IF d.act = "raise"
        THEN /\ Fail(d.exc)
             /\ UNCHANGED <<log, actx>>
        ELSE /\ log' = Append(log, d.req)
             /\ pc' = "wait"
             /\ actx' = "direct"
             /\ UNCHANGED <<outcome, batch, retval>>
    /\ UNCHANGED <<client, op, cur, ctx, resp, mapped, server, calls>>

DocumentId_EngramOnly(r) == IF r.wrapped /\ "engram_id" \in r.keys THEN r.id ELSE ""

\* the identifier store_memory reads from a create-document response
DocumentId(r) == IF r.wrapped /\ r.keys # {} THEN r.id ELSE ""

\* the response to a create-document request arrives
ReceiveCreateDocument ==
    /\ pc = "wait"
    /\ Last(log).kind = "create_document"
    /\ \E r \in Responses(server, Last(log)) :
        LET e == Transport(Last(log), r) IN
        /\ resp' = r
        /\ mapped' = e
        /\ server' = IF Accepted(r) THEN ServerApply(server, Last(log)) ELSE server
        /\ IF e # NoExc
           THEN Fail(e)
           ELSE SMReturn(DocumentId(r), NewIdSeq[server.next])
    /\ UNCHANGED <<client, op, cur, ctx, actx, log, calls>>

\* the Memory AsyncNebula.store_memory builds for the first message
FirstMessageMemory(m, conv_id) ==
    Memory(m.collection_id, List(<<MsgDict(StrOf(m.content), m.role)>>), None, conv_id)

\* the response to a create-conversation request arrives
ReceiveCreateConversation ==
    /\ pc = "wait"
    /\ Last(log).kind = "create_conversation"
    /\ \E r \in Responses(server, Last(log)) :
        LET e == Transport(Last(log), r) IN
        /\ resp' = r
        /\ mapped' = e
        /\ server' = IF Accepted(r) THEN ServerApply(server, Last(log)) ELSE server
        /\ IF e # NoExc
           THEN Fail(e) /\ UNCHANGED <<log, actx>>
           ELSE IF ~r.wrapped \/ r.keys = {}
           THEN \* "invalid response format" / "no id returned"
                Fail(ClientError) /\ UNCHANGED <<log, actx>>
           ELSE IF client = "async" /\ ContentTruthy(cur.content) /\ Truthy(cur.role)
           THEN \* await self._append_to_memory(conv_id, append_memory)
                LET d == AppendDecision(client, r.id, FirstMessageMemory(cur, r.id)) IN
                /\ log' = Append(log, d.req)
                /\ actx' = "first"
                /\ pc' = "wait"
                /\ retval' = r.id
                /\ UNCHANGED <<outcome, batch>>
           ELSE SMReturn(r.id, r.id) /\ UNCHANGED <<log, actx>>
    /\ UNCHANGED <<client, op, cur, ctx, calls>>

\* results.extend([str(conv_id)] * len(group))
GroupDone(b, id) ==
    [b EXCEPT !.results = @ \o [j \in DOMAIN b.groups[b.gi].members |-> b.conv_id],
              !.dest = [i \in DOMAIN @ |->
                            IF \E j \in DOMAIN b.groups[b.gi].members :
                                    b.groups[b.gi].members[j] = i
                            THEN id ELSE @[i]],
              !.gi = @ + 1]

ReceiveAppend_Compensating ==
    /\ pc = "wait"
    /\ Last(log).kind = "append"
    /\ actx \in {"direct", "first", "batch"}
    /\ \E r \in Responses(server, Last(log)) :
        LET e == MakeRequest(r) IN
        /\ resp' = r
        /\ mapped' = e
        /\ server' = IF Accepted(r) THEN ServerApply(server, Last(log)) ELSE server
        /\ IF e # NoExc
           THEN /\ Fail(NotFoundOn404(e, Last(log).id, "Memory"))
                /\ log' = Append(log, Req("delete", "make_request", Last(log).id,
                                          Payload(None, "none", <<>>, NoContent)))
           ELSE /\ UNCHANGED log
                /\ CASE actx = "direct" -> SMReturn(Last(log).id, Last(log).id)
                     [] actx = "first" -> SMReturn(retval, retval)
                     [] OTHER ->
                        /\ pc' = "sms_group"
                        /\ batch' = GroupDone(batch, Last(log).id)
                        /\ UNCHANGED <<outcome, retval>>
    /\ UNCHANGED <<client, op, cur, ctx, actx, calls>>

\* the response to the append request of _append_to_memory arrives
ReceiveAppend ==
    /\ pc = "wait"
    /\ Last(log).kind = "append"
    /\ actx \in {"direct", "first", "batch"}
    /\ \E r \in Responses(server, Last(log)) :
        LET e == MakeRequest(r) IN
        /\ resp' = r
        /\ mapped' = e
        /\ server' = IF Accepted(r) THEN ServerApply(server, Last(log)) ELSE server
        /\ IF e # NoExc
           THEN Fail(NotFoundOn404(e, Last(log).id, "Memory"))
           ELSE CASE actx = "direct" -> SMReturn(Last(log).id, Last(log).id)
                  [] actx = "first" -> SMReturn(retval, retval)
                  [] OTHER ->
                        \* back in AsyncNebula.store_memories
                        /\ pc' = "sms_group"
                        /\ batch' = GroupDone(batch, Last(log).id)
                        /\ UNCHANGED <<outcome, retval>>
    /\ UNCHANGED <<client, op, cur, ctx, actx, log, calls>>

----------------------------------------------------------------------------
(* Operations addressed by an identifier *)

ChunkIds == {"ch1", "ch9"}
EmptyPayload == Payload(None, "none", <<>>, NoContent)

CallIdOp(name, kind, id) ==
    /\ pc = "idle"
    /\ op' = [name |-> name, memories |-> <<>>, id |-> id]
    /\ log' = Append(log, Req(kind, "make_request", id, EmptyPayload))
    /\ pc' = "wait"
    /\ UNCHANGED <<client, cur, ctx, actx, resp, mapped, retval, outcome, server, batch, calls>>

\* delete(memory_ids) with a single id: DELETE /v1/memories/{id}
CallDelete(id) == CallIdOp("delete", "delete", id)

\* delete: True on success; any exception is swallowed and the unified
\* endpoint POST /v1/memories/delete is tried
ReceiveDelete ==
    /\ pc = "wait"
    /\ Last(log).kind = "delete"
    /\ \E r \in Responses(server, Last(log)) :
        LET e == MakeRequest(r) IN
        /\ resp' = r
        /\ mapped' = e
        /\ server' = IF Accepted(r) THEN ServerApply(server, Last(log)) ELSE server
        /\ IF e = NoExc
           THEN /\ pc' = "done"
                /\ outcome' = Returned("True")
                /\ UNCHANGED log
           ELSE /\ log' = Append(log, Req("delete_post", "make_request", Last(log).id, EmptyPayload))
                /\ pc' = "wait"
                /\ UNCHANGED outcome
    /\ UNCHANGED <<client, op, cur, ctx, actx, retval, batch, calls>>

\* delete, second attempt: response.get("success", False), or the exception
\* of _make_request as it is
ReceiveDeletePost ==
    /\ pc = "wait"
    /\ Last(log).kind = "delete_post"
    /\ \E r \in Responses(server, Last(log)), success \in {"True", "False"} :
        LET e == MakeRequest(r) IN
        /\ resp' = r
        /\ mapped' = e
        /\ server' = IF Accepted(r) /\ success = "True"
                     THEN [server EXCEPT !.exists = @ \ {Last(log).id}] ELSE server
        /\ pc' = "done"
        /\ outcome' = IF e = NoExc THEN Returned(success) ELSE Raised(e)
    /\ UNCHANGED <<client, op, cur, ctx, actx, log, retval, batch, calls>>

\* an operation that sends one request and turns a 404 into not-found
ReceiveWith404(kind, entity) ==
    /\ pc = "wait"
    /\ Last(log).kind = kind
    /\ \E r \in Responses(server, Last(log)) :
        LET e == MakeRequest(r) IN
        /\ resp' = r
        /\ mapped' = e
        /\ server' = IF Accepted(r) THEN ServerApply(server, Last(log)) ELSE server
        /\ pc' = "done"
        /\ outcome' = IF e = NoExc THEN Returned("True")
                      ELSE Raised(NotFoundOn404(e, Last(log).id, entity))
    /\ UNCHANGED <<client, op, cur, ctx, actx, log, retval, batch, calls>>

\* delete_chunk(chunk_id): DELETE /v1/chunks/{chunk_id}
CallDeleteChunk(id) == CallIdOp("delete_chunk", "delete_chunk", id)
ReceiveDeleteChunk == ReceiveWith404("delete_chunk", "Chunk")

\* update_chunk(chunk_id, content): PATCH /v1/chunks/{chunk_id}
CallUpdateChunk(id) == CallIdOp("update_chunk", "update_chunk", id)
ReceiveUpdateChunk == ReceiveWith404("update_chunk", "Chunk")

\* Nebula.update_memory(memory_id, ...): with no field to update it raises a
\* validation error before sending; AsyncNebula has no update_memory
CallUpdateMemory(id, fields) ==
    /\ client = "sync"
    /\ IF fields = {}
       THEN /\ pc = "idle"
            /\ op' = [name |-> "update_memory", memories |-> <<>>, id |-> id]
            /\ pc' = "done"
            /\ outcome' = Raised(Exc("NebulaValidationException", 400, None, None))
            /\ UNCHANGED <<client, cur, ctx, actx, log, resp, mapped, retval, server, batch, calls>>
       ELSE CallIdOp("update_memory", "update_memory", id)
ReceiveUpdateMemory == ReceiveWith404("update_memory", "Memory")

----------------------------------------------------------------------------
(* Single calls *)

Contents ==
    {Str(""), Str("hi"), Str("there"), Other, List(<<>>),
     List(<<DictPart("image", "b64")>>),
     List(<<StrPart("q"), DataclassPart("image", "b64")>>),
     List(<<StrPart("a"), StrPart("b")>>),
     List(<<MsgDict(Str("yo"), "user")>>)}

Memories ==
    {Memory(c, t, r, i) : c \in Collections, t \in Contents, r \in Roles,
                          i \in {None} \cup Ids}

MemoryIds == {"m1", "m9"}

Next ==
    \/ \E m \in Memories : CallStoreMemory(m)
    \/ StoreMemoryEntry
    \/ ReceiveCreateDocument
    \/ ReceiveCreateConversation
    \/ ReceiveAppend
    \/ \E id \in MemoryIds : CallDelete(id)
    \/ ReceiveDelete
    \/ ReceiveDeletePost
    \/ \E id \in ChunkIds : CallDeleteChunk(id)
    \/ ReceiveDeleteChunk
    \/ \E id \in ChunkIds : CallUpdateChunk(id)
    \/ ReceiveUpdateChunk
    \/ \E id \in MemoryIds, fields \in {{}, {"name"}} : CallUpdateMemory(id, fields)
    \/ ReceiveUpdateMemory

Spec == Init /\ [][Next]_vars

----------------------------------------------------------------------------
(* Properties of store_memory *)

TopMemory == op.memories[1]
IsStoreMemory == op.name = "store_memory"

\* C2: a store_memory with role present, memory_id absent and non-empty
\* content issues a create-conversation followed by exactly one append that
\* carries one message and targets the identifier the create returned; with
\* empty content only the create is issued.
C2_CreateThenOneAppend ==
    (IsStoreMemory /\ Truthy(TopMemory.role) /\ ~Truthy(TopMemory.memory_id)
        /\ outcome.kind = "ok") =>
        IF ContentTruthy(TopMemory.content)
        THEN /\ Len(log) = 2
             /\ log[1].kind = "create_conversation"
             /\ log[2].kind = "append"
             /\ log[2].id = outcome.value
             /\ Len(log[2].payload.messages) = 1
        ELSE /\ Len(log) = 1
             /\ log[1].kind = "create_conversation"

\* content a Write Request may carry: a text string or a sequence of parts
IsWriteContent(c) == IsStr(c) \/ IsList(c)

\* C3: a store_memory whose memory_id is present (role present or absent)
\* issues exactly one append request, addressed to that memory_id, and no
\* other request; on success it returns that memory_id; a 404 answer to the
\* append is raised as the not-found error naming that memory_id.
C3_OneAppendSameId ==
    (IsStoreMemory /\ Truthy(TopMemory.memory_id) /\ IsWriteContent(TopMemory.content)) =>
        /\ \A i \in DOMAIN log :
                log[i].kind = "append" /\ log[i].id = TopMemory.memory_id
        /\ Len(log) = IF pc = "sm_entry" THEN 0 ELSE 1
        /\ (outcome.kind = "ok" => outcome.value = TopMemory.memory_id)
        /\ (pc = "done" /\ resp.kind = "http" /\ resp.status = 404 =>
                outcome = Raised(NotFound(TopMemory.memory_id, "Memory")))

C3_Witness ==
    /\ IsStoreMemory /\ pc = "done"
    /\ TopMemory.memory_id = "m1" /\ TopMemory.role = "user"
    /\ TopMemory.content = Str("hi")
    /\ Len(log) = 1
    /\ resp.kind = "http" /\ resp.status = 404
    /\ outcome = Raised(NotFound("m1", "Memory"))

\* C4: a store_memory with role absent, memory_id absent and non-empty
\* content issues exactly one create-document request and no other request,
\* and returns the identifier the service assigned and put in its response.
C4_OneCreateDocument ==
    (IsStoreMemory /\ ~Truthy(TopMemory.role) /\ ~Truthy(TopMemory.memory_id)
        /\ ContentTruthy(TopMemory.content)) =>
        /\ \A i \in DOMAIN log : log[i].kind = "create_document"
        /\ Len(log) = IF pc = "sm_entry" THEN 0 ELSE 1
        /\ (outcome.kind = "ok" /\ resp.wrapped /\ resp.keys # {} =>
                /\ outcome.value = resp.id
                /\ outcome.value \in server.exists
                /\ outcome.value = NewIdSeq[server.next - 1])

C4_Witness ==
    /\ IsStoreMemory /\ pc = "done" /\ client = "async"
    /\ TopMemory = Memory("c1", Str("hi"), None, None)
    /\ Len(log) = 1 /\ log[1].kind = "create_document"
    /\ resp.keys = {"id"}
    /\ outcome = Returned("n1")

\* C5: every operation maps an HTTP response the same way: 200 and 202
\* return the body, 401 raises the authentication error, 429 the rate-limit
\* error, 400 the validation error, any other status the generic API error
\* carrying the status code.
C5_FixedStatusMapping ==
    resp.kind = "http" =>
        CASE resp.status \in {200, 202} -> mapped = NoExc
          [] resp.status = 401 -> mapped.exc = "NebulaAuthenticationException"
          [] resp.status = 429 -> mapped.exc = "NebulaRateLimitException"
          [] resp.status = 400 -> mapped.exc = "NebulaValidationException"
          [] OTHER -> mapped.exc = "NebulaException" /\ mapped.status = resp.status

\* C6: an append (memory_id present) of a plain string with a role carries
\* the string as a one-element message sequence with that role; raw_text is
\* used only when the role is absent.
C6_RoleStringIsMessage ==
    (IsStoreMemory /\ Truthy(TopMemory.memory_id) /\ TopMemory.content.kind = "str"
        /\ Len(log) > 0) =>
        IF Truthy(TopMemory.role)
        THEN /\ log[1].payload.field = "messages"
             /\ log[1].payload.messages = <<Msg(TopMemory.content, TopMemory.role)>>
        ELSE log[1].payload.field = "raw_text"

----------------------------------------------------------------------------
(* store_memories *)

\* key = m.memory_id or f"__new__::{m.collection_id}"
GroupKey(m) == IF Truthy(m.memory_id) THEN m.memory_id ELSE Marker \o m.collection_id

\* key.startswith("__new__::"), over the strings of this model
StartsWithMarker(s) == s \in {Marker \o t : t \in Collections \cup {""}}

\* conv_groups.setdefault(key, []).append(m): groups in order of first
\* appearance, each with the input positions of its members in input order
RECURSIVE ConvGroups(_, _, _)
ConvGroups(ms, i, acc) ==
    IF i > Len(ms) THEN acc
    ELSE IF ~Truthy(ms[i].role) THEN ConvGroups(ms, i + 1, acc)
    ELSE LET k == GroupKey(ms[i]) IN
         IF \E g \in DOMAIN acc : acc[g].key = k
         THEN ConvGroups(ms, i + 1,
                [g \in DOMAIN acc |->
                    IF acc[g].key = k
                    THEN [acc[g] EXCEPT !.members = Append(@, i)]
                    ELSE acc[g]])
         ELSE ConvGroups(ms, i + 1, Append(acc, [key |-> k, members |-> <<i>>]))

\* others.append(m): input positions of the role-less requests
RECURSIVE Others(_, _)
Others(ms, i) ==
    IF i > Len(ms) THEN <<>>
    ELSE IF Truthy(ms[i].role) THEN Others(ms, i + 1)
    ELSE <<i>> \o Others(ms, i + 1)

\* client.store_memories(memories) is called: the grouping loop
CallStoreMemories(ms) ==
    /\ pc = "idle"
    /\ op' = [name |-> "store_memories", memories |-> ms, id |-> None]
    /\ batch' = [groups |-> ConvGroups(ms, 1, <<>>), others |-> Others(ms, 1),
                 gi |-> 1, oi |-> 1, conv_id |-> None, results |-> <<>>,
                 dest |-> [i \in DOMAIN ms |-> None]]
    /\ pc' = "sms_group"
    /\ UNCHANGED <<client, cur, ctx, actx, log, resp, mapped, retval, outcome, server, calls>>

GroupMemories == [j \in DOMAIN batch.groups[batch.gi].members |->
                    op.memories[batch.groups[batch.gi].members[j]]]

\* top of the loop over conv_groups: a group whose key starts with the
\* marker first creates a conversation through store_memory
StoreMemoriesGroup ==
    /\ pc = "sms_group"
    /\ IF batch.gi > Len(batch.groups)
       THEN /\ pc' = "sms_others"
            /\ UNCHANGED <<cur, ctx, batch>>
       ELSE IF StartsWithMarker(batch.groups[batch.gi].key)
       THEN /\ cur' = Memory(GroupMemories[1].collection_id, Str(""), "assistant", None)
            /\ ctx' = "new_group"
            /\ pc' = "sm_entry"
            /\ UNCHANGED batch
       ELSE /\ batch' = [batch EXCEPT !.conv_id = batch.groups[batch.gi].key]
            /\ pc' = "sms_append"
            /\ UNCHANGED <<cur, ctx>>
    /\ UNCHANGED <<client, op, actx, log, resp, mapped, retval, outcome, server, calls>>

\* is_multimodal of Nebula.store_memories
IsMultimodalBatch(c) ==
    /\ IsList(c) /\ Len(c.parts) > 0
    /\ \/ c.parts[1].pk = "dict" /\ c.parts[1].type # None
       \/ c.parts[1].pk = "dataclass"

\* the message store_memories builds for one member of a group
BatchMessage(cl, m) ==
    IF cl = "sync" /\ IsMultimodalBatch(m.content)
    THEN Msg(List([i \in DOMAIN m.content.parts |-> PartToApi(m.content.parts[i])]), m.role)
    ELSE Msg(StrOrEmpty(m.content), m.role)

BatchMessages(cl, group) == [j \in DOMAIN group |-> BatchMessage(cl, group[j])]

\* the append request of a group: Nebula sends it with _make_request,
\* AsyncNebula hands a Memory holding the messages to _append_to_memory
BatchAppendRequest(cl, conv_id, group) ==
    IF cl = "sync"
    THEN Req("append", "make_request", conv_id,
             Payload(group[1].collection_id, "messages", BatchMessages(cl, group), NoContent))
    ELSE AppendDecision(cl, conv_id,
            Memory(group[1].collection_id,
                   List([j \in DOMAIN group |->
                            MsgDict(BatchMessages(cl, group)[j].content,
                                    BatchMessages(cl, group)[j].role)]),
                   None, conv_id)).req

\* the batched append of the current group is sent
StoreMemoriesAppend ==
    /\ pc = "sms_append"
    /\ log' = Append(log, BatchAppendRequest(client, batch.conv_id, GroupMemories))
    /\ actx' = IF client = "sync" THEN "batch_sync" ELSE "batch"
    /\ pc' = "wait"
    /\ UNCHANGED <<client, op, cur, ctx, resp, mapped, retval, outcome, server, batch, calls>>

ReceiveBatchAppend_BestEffort ==
    /\ pc = "wait"
    /\ Last(log).kind = "append"
    /\ actx = "batch_sync"
    /\ \E r \in Responses(server, Last(log)) :
        /\ resp' = r
        /\ mapped' = MakeRequest(r)
        /\ server' = IF Accepted(r) THEN ServerApply(server, Last(log)) ELSE server
        /\ pc' = "sms_group"
        /\ batch' = GroupDone(batch, Last(log).id)
        /\ UNCHANGED <<outcome, retval>>
    /\ UNCHANGED <<client, op, cur, ctx, actx, log, calls>>

\* Nebula.store_memories: the response to the batched append arrives; an
\* exception of _make_request leaves the call as it is
ReceiveBatchAppend ==
    /\ pc = "wait"
    /\ Last(log).kind = "append"
    /\ actx = "batch_sync"
    /\ \E r \in Responses(server, Last(log)) :
        LET e == MakeRequest(r) IN
        /\ resp' = r
        /\ mapped' = e
        /\ server' = IF Accepted(r) THEN ServerApply(server, Last(log)) ELSE server
        /\ IF e # NoExc
           THEN Fail(e)
           ELSE /\ pc' = "sms_group"
                /\ batch' = GroupDone(batch, Last(log).id)
                /\ UNCHANGED <<outcome, retval>>
    /\ UNCHANGED <<client, op, cur, ctx, actx, log, calls>>

\* the loop over others: each goes through store_memory; after the last
\* one the results are returned
StoreMemoriesOthers ==
    /\ pc = "sms_others"
    /\ IF batch.oi > Len(batch.others)
       THEN /\ pc' = "done"
            /\ outcome' = ReturnedList(batch.results)
            /\ UNCHANGED <<cur, ctx>>
       ELSE /\ cur' = op.memories[batch.others[batch.oi]]
            /\ ctx' = "other"
            /\ pc' = "sm_entry"
            /\ UNCHANGED outcome
    /\ UNCHANGED <<client, op, actx, log, resp, mapped, retval, server, batch, calls>>

\* The requests a batch is made of: messages for a new conversation of c1
\* or c2, for the existing conversation m1 (named under c1 or c2), for an
\* identifier that begins with the marker, a multimodal message, and
\* role-less requests (a new document, an append to m1, an empty document).
Image == List(<<DictPart("image", "b64")>>)
BatchMemories ==
    {Memory("c1", Str("hi"), "user", None),
     Memory("c1", Str("there"), "assistant", None),
     Memory("c2", Str("hi"), "user", None),
     Memory("c1", Image, "user", None),
     Memory("c1", Str("hi"), "user", "m1"),
     Memory("c2", Str("there"), "assistant", "m1"),
     Memory("c1", Str("there"), "user", Marker \o "c1"),
     Memory("c1", Str("hi"), None, None),
     Memory("c1", Str("there"), None, "m1"),
     Memory("c1", Str(""), None, None)}

RECURSIVE SeqsUpTo(_, _)
SeqsUpTo(S, n) ==
    IF n = 0 THEN {<<>>}
    ELSE SeqsUpTo(S, n - 1) \cup
         {Append(s, x) : s \in {t \in SeqsUpTo(S, n - 1) : Len(t) = n - 1}, x \in S}

NextBatch ==
    \/ pc = "idle" /\ \E ms \in SeqsUpTo(BatchMemories, MaxBatch) : CallStoreMemories(ms)
    \/ StoreMemoriesGroup
    \/ StoreMemoriesAppend
    \/ ReceiveBatchAppend
    \/ StoreMemoriesOthers
    \/ StoreMemoryEntry
    \/ ReceiveCreateDocument
    \/ ReceiveCreateConversation
    \/ ReceiveAppend

SpecBatch == Init /\ [][NextBatch]_vars

----------------------------------------------------------------------------
(* Sessions of store_memory calls on one conversation *)

\* the call has ended and the caller makes the next one
Return ==
    /\ pc = "done"
    /\ calls' = Append(calls, [memory |-> TopMemory, outcome |-> outcome])
    /\ op' = NoOp
    /\ pc' = "idle"
    /\ cur' = NoMemory
    /\ ctx' = "top"
    /\ actx' = "direct"
    /\ log' = <<>>
    /\ resp' = NoResp
    /\ mapped' = NoExc
    /\ retval' = None
    /\ outcome' = NoOutcome
    /\ UNCHANGED <<client, server, batch>>

ConvMemories ==
    {Memory("c1", Str(t), r, i) : t \in {"hi", "there"}, r \in {"user", "assistant"},
                                  i \in {None} \cup NewIds}

NextConv ==
    \/ pc = "idle" /\ Len(calls) < MaxCalls /\ \E m \in ConvMemories : CallStoreMemory(m)
    \/ StoreMemoryEntry
    \/ ReceiveCreateConversation
    \/ ReceiveAppend
    \/ Return

SpecConv == Init /\ [][NextConv]_vars

----------------------------------------------------------------------------
(* Properties of store_memories, of sessions and of not-found *)

IsStoreMemories == op.name = "store_memories"
BatchReturned == IsStoreMemories /\ pc = "done" /\ outcome.kind = "ok"

\* C1: the list store_memories returns has the length of its input and, at
\* every position i, the identifier of the memory input i was written to
\* (an empty string stands for an identifier the response did not carry).
C1_PositionalResults ==
    BatchReturned =>
        /\ Len(outcome.values) = Len(op.memories)
        /\ \A i \in DOMAIN op.memories :
                outcome.values[i] # "" => outcome.values[i] = batch.dest[i]

\* C7: after one role-bearing create without memory_id and role-bearing
\* plain-string appends to the identifier it returned, all successful, the
\* conversation on the service holds exactly the messages of those calls in
\* call order, each with the role given in its call.
C7_ConversationInCallOrder ==
    (/\ pc = "idle" /\ Len(calls) > 0
     /\ \A k \in DOMAIN calls : calls[k].outcome.kind = "ok"
     /\ calls[1].memory.memory_id = None
     /\ \A k \in DOMAIN calls :
            k > 1 => calls[k].memory.memory_id = calls[1].outcome.value) =>
        server.chunks[calls[1].outcome.value] =
            [k \in DOMAIN calls |-> Chunk(calls[k].memory.content, calls[k].memory.role)]

\* positions of the role-bearing requests of the batch, in input order
RECURSIVE RoleBearing(_, _)
RoleBearing(ms, i) ==
    IF i > Len(ms) THEN <<>>
    ELSE IF Truthy(ms[i].role) THEN <<i>> \o RoleBearing(ms, i + 1)
    ELSE RoleBearing(ms, i + 1)

\* the messages carry the roles, and the plain-string contents, of the
\* requests at positions idx, in that order
CarriesInOrder(messages, ms, idx) ==
    /\ Len(messages) = Len(idx)
    /\ \A j \in DOMAIN idx :
            /\ messages[j].role = ms[idx[j]].role
            /\ ms[idx[j]].content.kind = "str" => messages[j].content = ms[idx[j]].content

\* C8: in a batch whose M >= 1 role-bearing requests share one target
\* conversation id and whose other N-M requests are role-less, exactly one
\* append is issued for the M-group, carrying its M messages in input order,
\* and exactly N-M single-item operations for the rest.
C8_OneAppendForGroup ==
    LET ms == op.memories
        rb == RoleBearing(ms, 1)
    IN  (/\ BatchReturned /\ Len(rb) >= 1
         /\ \A j \in DOMAIN rb :
                /\ Truthy(ms[rb[j]].memory_id)
                /\ ms[rb[j]].memory_id = ms[rb[1]].memory_id) =>
            /\ Len(log) = 1 + (Len(ms) - Len(rb))
            /\ log[1].kind = "append"
            /\ log[1].id = ms[rb[1]].memory_id
            /\ log[1].payload.field = "messages"
            /\ CarriesInOrder(log[1].payload.messages, ms, rb)
            /\ \A k \in 2..Len(log) :
                    /\ log[k].kind \in {"create_document", "append"}
                    /\ log[k].payload.field # "messages"

\* positions of the role-bearing requests without memory_id of collection c
RECURSIVE NewGroup(_, _, _)
NewGroup(ms, c, i) ==
    IF i > Len(ms) THEN <<>>
    ELSE IF Truthy(ms[i].role) /\ ~Truthy(ms[i].memory_id) /\ ms[i].collection_id = c
         THEN <<i>> \o NewGroup(ms, c, i + 1)
         ELSE NewGroup(ms, c, i + 1)

\* number of create requests among the first k requests of the log: the
\* k-th accepted create is assigned NewIdSeq[that number]
CreatesUpTo(k) ==
    Cardinality({j \in 1..k : log[j].kind \in {"create_conversation", "create_document"}})

\* C9: for the role-bearing requests without memory_id of one collection,
\* exactly one create-conversation is issued, carrying no message, followed
\* by exactly one append to the identifier that create returned, whose
\* messages are the contents of those requests in input order.
C9_OneConversationPerCollection ==
    BatchReturned =>
        \A c \in Collections :
            LET g == NewGroup(op.memories, c, 1)
                creates == {k \in DOMAIN log :
                                /\ log[k].kind = "create_conversation"
                                /\ log[k].payload.collection = c}
            IN  Len(g) > 0 =>
                    /\ Cardinality(creates) = 1
                    /\ \A k \in creates :
                        /\ log[k].payload.messages = <<>>
                        /\ k < Len(log)
                        /\ log[k + 1].kind = "append"
                        /\ log[k + 1].id = NewIdSeq[CreatesUpTo(k)]
                        /\ CarriesInOrder(log[k + 1].payload.messages, op.memories, g)
                        /\ Cardinality({j \in DOMAIN log :
                                /\ log[j].kind = "append"
                                /\ log[j].id = NewIdSeq[CreatesUpTo(k)]}) = 1

\* the entity kind an identifier-addressed operation names
EntityOf(name) == IF name \in {"delete_chunk", "update_chunk"} THEN "Chunk" ELSE "Memory"

\* C10: a 404 answer to an identifier-addressed operation (delete of one
\* memory id, update_memory, update_chunk, delete_chunk, the batched append
\* of store_memories) is raised as the not-found error naming the
\* identifier and the entity kind, never as the generic API error.
C10_NotFoundNamesIdentifier ==
    (pc = "done" /\ resp.kind = "http" /\ resp.status = 404 /\ Len(log) > 0
        /\ \/ op.name \in {"delete", "update_memory", "update_chunk", "delete_chunk"}
           \/ IsStoreMemories /\ Last(log).kind = "append"
                /\ Last(log).payload.field = "messages") =>
        outcome = Raised(NotFound(Last(log).id, EntityOf(op.name)))

----------------------------------------------------------------------------
(* Properties of payloads and of failures *)

ContentFields == {"messages", "chunks", "raw_text"}

IsCreateDocument ==
    IsStoreMemory /\ ~Truthy(TopMemory.role) /\ ~Truthy(TopMemory.memory_id)

\* C12: a create-document call (role absent, memory_id absent) whose content
\* is an empty string or a sequence with no parts fails with a validation
\* error and issues no request.
C12_EmptyDocumentRejected ==
    (IsCreateDocument /\ TopMemory.content \in {Str(""), List(<<>>)}
        /\ pc # "sm_entry") =>
        /\ log = <<>>
        /\ pc = "done"
        /\ outcome.kind = "error"
        /\ outcome.exc.exc = "NebulaValidationException"

\* C13: a document created from sequence content is sent by both clients as
\* a content-parts payload with one entry per input part in input order (a
\* plain string as a part of type text holding that text, a typed part with
\* its type and data unchanged), never as the string form of the list in
\* raw_text.
C13_PartsForwarded ==
    (IsCreateDocument /\ IsList(TopMemory.content)
        /\ Len(TopMemory.content.parts) > 0 /\ pc # "sm_entry") =>
        LET ps == TopMemory.content.parts IN
        /\ Len(log) = 1
        /\ log[1].kind = "create_document"
        /\ log[1].payload.field = "content_parts"
        /\ Len(log[1].payload.value.parts) = Len(ps)
        /\ \A i \in DOMAIN ps :
            LET sent == log[1].payload.value.parts[i] IN
            IF ps[i].pk = "str"
            THEN sent.type = "text" /\ sent.body = ps[i].body
            ELSE sent.type = ps[i].type /\ sent.body = ps[i].body

\* batched appends issued so far, and requests issued for role-less items
BatchAppends ==
    Cardinality({k \in DOMAIN log :
        log[k].kind = "append" /\ log[k].payload.field = "messages"})
SingleItemRequests ==
    Cardinality({k \in DOMAIN log :
        \/ log[k].kind = "create_document"
        \/ log[k].kind = "append" /\ log[k].payload.field # "messages"})

\* C14: in store_memories the first failing create or append ends the whole
\* batch: the error reaches the caller, nothing is returned, and no request
\* has been issued for a group or item after the one that failed.
C14_FailFast ==
    IsStoreMemories =>
        /\ (mapped # NoExc => pc = "done" /\ outcome.kind = "error")
        /\ (outcome.kind = "ok" =>
                /\ mapped = NoExc
                /\ batch.gi > Len(batch.groups) /\ batch.oi > Len(batch.others))
        /\ (outcome.kind = "error" =>
                /\ pc = "done"
                /\ outcome.values = <<>>
                /\ \/ batch.gi <= Len(batch.groups)
                   \/ batch.oi <= Len(batch.others)
                /\ BatchAppends <= batch.gi
                /\ SingleItemRequests <= batch.oi
                /\ (batch.gi <= Len(batch.groups) => SingleItemRequests = 0))

C14_Witness ==
    /\ IsStoreMemories /\ pc = "done"
    /\ Len(batch.groups) = 2 /\ Len(batch.others) = 1
    /\ batch.gi = 1
    /\ Len(log) = 1 /\ log[1].kind = "append"
    /\ resp.kind = "http" /\ resp.status = 500
    /\ outcome = Raised(Exc("NebulaException", 500, None, None))

----------------------------------------------------------------------------
(* store_memory and store_memories together *)

NextWrite ==
    \/ pc = "idle" /\ \E m \in Memories : CallStoreMemory(m)
    \/ pc = "idle" /\ \E ms \in SeqsUpTo(BatchMemories, MaxBatch) : CallStoreMemories(ms)
    \/ StoreMemoriesGroup
    \/ StoreMemoriesAppend
    \/ ReceiveBatchAppend
    \/ StoreMemoriesOthers
    \/ StoreMemoryEntry
    \/ ReceiveCreateDocument
    \/ ReceiveCreateConversation
    \/ ReceiveAppend

SpecWrite == Init /\ [][NextWrite]_vars

\* the request at position k created a conversation and the next request,
\* the dependent append, is the last one issued
DependentAppendAt(k) ==
    /\ log[k].kind = "create_conversation"
    /\ k + 1 = Len(log)
    /\ log[k + 1].kind = "append"

\* C15: when the create of a create-then-append succeeded and the dependent
\* append fails, the client issues no delete and no other compensating
\* request, the failure ends the call, and the created conversation remains
\* on the service; this holds for store_memory and for the new-conversation
\* groups of store_memories.
C15_NoCompensation ==
    (IsStoreMemory \/ IsStoreMemories) =>
        /\ \A j \in DOMAIN log :
                log[j].kind \in {"create_conversation", "create_document", "append"}
        /\ \A k \in DOMAIN log :
                DependentAppendAt(k) =>
                    /\ log[k + 1].id \in server.exists
                    /\ (pc = "done" /\ mapped # NoExc =>
                            /\ outcome.kind = "error"
                            /\ server.chunks[log[k + 1].id] = ChunksOf(log[k].payload))

C15_Witness ==
    /\ IsStoreMemory /\ client = "async" /\ pc = "done"
    /\ TopMemory = Memory("c1", Str("hi"), "user", None)
    /\ Len(log) = 2 /\ DependentAppendAt(1)
    /\ resp.kind = "transport"
    /\ outcome.kind = "error"
    /\ "n1" \in server.exists /\ server.chunks["n1"] = <<>>

C15_WitnessBatch ==
    /\ IsStoreMemories /\ client = "sync" /\ pc = "done"
    /\ Len(log) = 2 /\ DependentAppendAt(1)
    /\ resp.kind = "http" /\ resp.status = 500
    /\ outcome.kind = "error"
    /\ "n1" \in server.exists /\ server.chunks["n1"] = <<>>

\* what the caller of the top-level call holds once it has ended: the value
\* returned, or the identifier the exception names
CallerHolds(id) == outcome.value = id \/ outcome.exc.id = id

\* C16: when the first-message append of a conversation create fails, the
\* failure reaches the caller and the caller holds the identifier of the
\* conversation the create step made.
C16_CallerHoldsOrphan ==
    (IsStoreMemory /\ pc = "done" /\ Len(log) = 2 /\ DependentAppendAt(1)
        /\ mapped # NoExc) =>
        /\ outcome.kind = "error"
        /\ CallerHolds(log[2].id)

----------------------------------------------------------------------------
(* Document writes with an authority score *)

AuthorityValues ==
    {NoAuthority, Num(-5), Num(0), Num(4), Num(10), Num(11), Num(15),
     NumStr(4), NumStr(15), NaN, NonNumeric}

AuthorityMemories ==
    {MemoryWithAuthority(Memory(c, t, None, None), a) :
        c \in Collections, t \in {Str("hi"), Image}, a \in AuthorityValues}

NextAuthority ==
    \/ pc = "idle" /\ \E m \in AuthorityMemories : CallStoreMemory(m)
    \/ StoreMemoryEntry
    \/ ReceiveCreateDocument

SpecAuthority == Init /\ [][NextAuthority]_vars

\* C17: for a document write with an authority score, a value inside
\* [0.0, 1.0] is placed in the request metadata under authority; a value
\* outside the range or one that is not a number adds no authority entry,
\* raises nothing, and the create-document request is still issued.  (A
\* str that reads as a number counts as that number.)
C17_AuthorityLenient ==
    (IsCreateDocument /\ pc # "sm_entry") =>
        LET a == TopMemory.authority IN
        /\ Len(log) = 1
        /\ log[1].kind = "create_document"
        /\ log[1].payload.authority =
            IF a.kind \in {"num", "numstr"} /\ 0 <= a.tenths /\ a.tenths <= 10
            THEN Num(a.tenths)
            ELSE NoAuthority

C17_Witness ==
    /\ IsCreateDocument /\ pc = "done"
    /\ TopMemory.authority = Num(15)
    /\ Len(log) = 1 /\ log[1].kind = "create_document"
    /\ log[1].payload.authority = NoAuthority
    /\ outcome = Returned("n1")

----------------------------------------------------------------------------
(* Reading: get_memory, list_memories, get_collection *)

\* a key a dict does not have; str(None)
Absent == "<absent>"
NoneStr == "'None'"

\* str(v) of a str or None
PyStr(v) == IF v = None THEN NoneStr ELSE v

\* A JSON object of a response, by the keys that matter here: id, engram_id
\* and its main field (text/content of a memory, name of a collection).
Doc(id, engram_id, content) == [id |-> id, engram_id |-> engram_id, content |-> content]
EmptyDoc == Doc(Absent, Absent, Absent)

\* d.get(k, default)
Get(d, k, default) == IF d[k] = Absent THEN default ELSE d[k]

\* The parsed body of a success response: the payload object sits under the
\* wrapper key "results" or at the top level.
PayloadDoc(r) ==
    Doc(IF "id" \in r.keys THEN r.id ELSE Absent,
        IF "engram_id" \in r.keys THEN r.id ELSE Absent,
        "hello")
Body(r) ==
    [has_results |-> r.wrapped,
     results |-> IF r.wrapped THEN PayloadDoc(r) ELSE EmptyDoc,
     top |-> IF r.wrapped THEN EmptyDoc ELSE PayloadDoc(r)]

\* MemoryResponse.from_dict
FromDict(data) ==
    LET memory_id == PyStr(Get(data, "id", ""))
        engram_id == Get(data, "engram_id", None)
        content == Get(data, "content", None)
    IN  ReadModel(IF Truthy(engram_id) /\ ~Truthy(memory_id) THEN engram_id ELSE memory_id,
                  IF Truthy(content) THEN content ELSE None)

\* Collection.from_dict
CollectionFromDict(data) ==
    ReadModel(PyStr(Get(data, "id", "")), Get(data, "content", ""))

\* memory_data of Nebula.get_memory and Nebula.list_memories: the key id is
\* always there, holding doc.get("id"); engram_id is not carried over
SyncMemoryData(doc) ==
    Doc(Get(doc, "id", None), Absent,
        IF Truthy(Get(doc, "content", None)) THEN doc.content ELSE None)

\* if isinstance(response, dict) and "results" in response: response["results"]
Unwrap(body) == IF body.has_results THEN body.results ELSE body.top

\* get_memory: neither client unwraps
GetMemoryModel(cl, body) ==
    IF cl = "sync" THEN FromDict(SyncMemoryData(body.top)) ELSE FromDict(body.top)

\* list_memories, for the one object the response lists
ListMemoriesModel(cl, body) ==
    IF cl = "sync" THEN FromDict(SyncMemoryData(Unwrap(body))) ELSE FromDict(Unwrap(body))

\* get_collection
GetCollectionModel(cl, body) == CollectionFromDict(Unwrap(body))

ReadOps == {"get_memory", "list_memories", "get_collection"}

ReadModelOf(name, cl, body) ==
    CASE name = "get_memory" -> GetMemoryModel(cl, body)
      [] name = "list_memories" -> ListMemoriesModel(cl, body)
      [] OTHER -> GetCollectionModel(cl, body)

\* Bodies the service may answer a read with: wrapped or not, the
\* identifier under id, engram_id, both or neither.
ReadBodyShapes == {<<w, ks>> : w \in BOOLEAN, ks \in SUBSET {"id", "engram_id"}}

ReadResponses(q) ==
    {TransportFailure}
    \cup {Http(st, TRUE, {}, None) : st \in ErrorStatuses}
    \cup {Http(st, b[1], b[2], q.id) : st \in SuccessStatuses, b \in ReadBodyShapes}

CallGetMemory(id) == CallIdOp("get_memory", "get_memory", id)
CallListMemories(c) == CallIdOp("list_memories", "list_memories", c)
CallGetCollection(c) == CallIdOp("get_collection", "get_collection", c)

\* the response to a read arrives and is mapped to the read model
ReceiveRead(kind) ==
    /\ pc = "wait"
    /\ Last(log).kind = kind
    /\ \E r \in ReadResponses(Last(log)) :
        LET e == MakeRequest(r) IN
        /\ resp' = r
        /\ mapped' = e
        /\ pc' = "done"
        /\ outcome' = IF e = NoExc
                      THEN ReturnedModel(ReadModelOf(kind, client, Body(r)))
                      ELSE Raised(e)
    /\ UNCHANGED <<client, op, cur, ctx, actx, log, retval, server, batch, calls>>

ReceiveGetMemory == ReceiveRead("get_memory")
ReceiveListMemories == ReceiveRead("list_memories")
ReceiveGetCollection == ReceiveRead("get_collection")

NextRead ==
    \/ \E id \in MemoryIds : CallGetMemory(id)
    \/ \E c \in Collections : CallListMemories(c)
    \/ \E c \in Collections : CallGetCollection(c)
    \/ ReceiveGetMemory
    \/ ReceiveListMemories
    \/ ReceiveGetCollection

SpecRead == Init /\ [][NextRead]_vars

ReadSucceeded ==
    op.name \in ReadOps /\ pc = "done" /\ resp.kind = "http"
        /\ resp.status \in SuccessStatuses

\* C18: a memory response that carries no identifier under id or engram_id
\* is mapped to a read model whose id is the empty string, without an
\* error; this holds for get_memory and list_memories of both clients.
C18_MissingIdIsEmpty ==
    (ReadSucceeded /\ op.name \in {"get_memory", "list_memories"}
        /\ resp.keys = {}) =>
        /\ outcome.kind = "ok"
        /\ outcome.model.id = ""

\* C19: when a success response wraps its payload under results, the read
\* model is built from the wrapped payload, for get_memory as for the
\* collection operations.
C19_WrapperUnwrapped ==
    (ReadSucceeded /\ resp.wrapped /\ "id" \in resp.keys) =>
        /\ outcome.kind = "ok"
        /\ outcome.model = ReadModel(resp.id, "hello")

----------------------------------------------------------------------------
(* SearchResult.from_graph_dict *)

GraphTypes == {"entity", "relationship", "community"}

\* a graph payload object (GraphEntityResult, ...) or None
GraphPayload(name) == [set |-> TRUE, name |-> name]
NoGraphPayload == [set |-> FALSE, name |-> ""]

\* the dict handed to from_graph_dict, by the keys that matter: result_type,
\* id, score (a decimal numeral) and the name inside content (Absent: no content
\* key, None: content is null, "": content without a name)
GraphData(result_type, id, name, score) ==
    [result_type |-> result_type, id |-> id, name |-> name, score |-> score]

SearchResult(id, type, entity, rel, comm, score) ==
    [id |-> id, graph_result_type |-> type, graph_entity |-> entity,
     graph_relationship |-> rel, graph_community |-> comm, score |-> score]

GraphEnum_Lenient(v) == [raises |-> FALSE, value |-> v]

\* GraphSearchResultType(v): the member with that value, or ValueError
GraphEnum(v) ==
    IF v \in GraphTypes THEN [raises |-> FALSE, value |-> v]
    ELSE [raises |-> TRUE, value |-> v]

\* content.get("name", "") with content = data.get("content", {}) or {}
ContentName(d) == IF d.name \in {Absent, None} THEN "" ELSE d.name

\* float(data.get("score", 0.0)) if data.get("score") is not None else 0.0
ScoreOf(d) == IF d.score \in {Absent, None} THEN "0.0" ELSE d.score

\* SearchResult.from_graph_dict: the outcome of the call
FromGraphDict(d) ==
    IF d.result_type = Absent THEN Raised(Exc("KeyError", 0, None, None))
    ELSE IF GraphEnum(d.result_type).raises
    THEN Raised(Exc("ValueError", 0, None, None))
    ELSE LET rtype == GraphEnum(d.result_type).value
             payload == GraphPayload(ContentName(d))
         IN  ReturnedModel(SearchResult(
                IF d.id = Absent THEN "" ELSE PyStr(d.id),
                rtype,
                IF rtype = "entity" THEN payload ELSE NoGraphPayload,
                IF rtype = "relationship" THEN payload ELSE NoGraphPayload,
                IF rtype \notin {"entity", "relationship"} THEN payload ELSE NoGraphPayload,
                ScoreOf(d)))

GraphTypeInputs == GraphTypes \cup {Absent, None, "", "ENTITY", "chunk"}

GraphInputs ==
    {GraphData(t, i, n, s) : t \in GraphTypeInputs, i \in {Absent, "g1"},
                             n \in {Absent, None, "", "alice"}, s \in {Absent, None, "0.5"}}

\* SearchResult.from_graph_dict(d) is called and returns or raises
CallFromGraphDict(d) ==
    /\ pc = "idle"
    /\ op' = [name |-> "from_graph_dict", memories |-> <<d>>, id |-> None]
    /\ pc' = "done"
    /\ outcome' = FromGraphDict(d)
    /\ UNCHANGED <<client, cur, ctx, actx, log, resp, mapped, retval, server, batch, calls>>

NextGraph == \E d \in GraphInputs : CallFromGraphDict(d)

SpecGraph == Init /\ [][NextGraph]_vars

IsFromGraphDict == op.name = "from_graph_dict" /\ pc = "done"

\* C20: from_graph_dict on a payload whose result_type is absent or not one
\* of entity, relationship, community raises an error; it never returns a
\* result whose graph payloads are all empty.
C20_StrictDiscriminator ==
    IsFromGraphDict =>
        /\ (op.memories[1].result_type \notin GraphTypes => outcome.kind = "error")
        /\ (outcome.kind = "ok" =>
                /\ outcome.model.graph_result_type = op.memories[1].result_type
                /\ \/ outcome.model.graph_entity.set
                   \/ outcome.model.graph_relationship.set
                   \/ outcome.model.graph_community.set)

C20_Witness ==
    /\ IsFromGraphDict
    /\ op.memories[1] = GraphData("chunk", "g1", "alice", "0.5")
    /\ outcome = Raised(Exc("ValueError", 0, None, None))

----------------------------------------------------------------------------
(* The response mappers: MemoryResponse.from_dict, Collection.from_dict,   *)
(* SearchResult.from_dict, MemoryRecall.from_dict                          *)

\* A JSON container under a key: the key is absent, holds null, or holds a
\* dict (entries: key -> value, Absent for a key it lacks) or a list.
MetaKeys == {"k", "engram_id"}
NoEntries == [x \in MetaKeys |-> Absent]
DictOf(entries) == [st |-> "dict", entries |-> entries, items |-> <<>>]
ListOf(items) == [st |-> "list", entries |-> NoEntries, items |-> items]
AbsentKey == [st |-> "absent", entries |-> NoEntries, items |-> <<>>]
Null == [st |-> "null", entries |-> NoEntries, items |-> <<>>]
EmptyDict == DictOf(NoEntries)
EmptyList == ListOf(<<>>)

\* bool(container)
ContainerTruthy(c) ==
    \/ c.st = "dict" /\ c.entries # NoEntries
    \/ c.st = "list" /\ c.items # <<>>

\* d.get(key, default) for a container key
GetContainer(c, default) == IF c.st = "absent" THEN default ELSE c

\* The raw JSON object handed to a mapper, by the keys the mappers read.
Raw(id, engram_id, content, metadata, engram_metadata, collection_ids, entities, score) ==
    [id |-> id, engram_id |-> engram_id, content |-> content, metadata |-> metadata,
     engram_metadata |-> engram_metadata, collection_ids |-> collection_ids,
     entities |-> entities, score |-> score]

\* What a mapper returns, by the fields that matter here.
Mapped(id, content, metadata, collection_ids, entities, score) ==
    ReturnedModel([id |-> id, content |-> content, metadata |-> metadata,
                   collection_ids |-> collection_ids, entities |-> entities,
                   score |-> score])

TypeError == Exc("TypeError", 0, None, None)
AttributeError == Exc("AttributeError", 0, None, None)

\* target.update(source)
DictUpdate(target, source) ==
    [x \in MetaKeys |-> IF source[x] # Absent THEN source[x] ELSE target[x]]

\* MemoryResponse.from_dict, the metadata it ends with: metadata is
\* data["metadata"] itself when the key is there (a fresh {} otherwise),
\* engram_id is written into it and engram_metadata merged into it.  "raises"
\* when metadata is null and one of the two has to be written.
MemoryMetadata(data) ==
    LET metadata == GetContainer(data.metadata, EmptyDict)
        writes_id == Truthy(Get(data, "engram_id", None))
        merges == ContainerTruthy(data.engram_metadata)
        with_id == IF writes_id
                   THEN [metadata.entries EXCEPT !["engram_id"] = data.engram_id]
                   ELSE metadata.entries
    IN  IF metadata.st # "dict"
        THEN IF writes_id THEN [raises |-> TRUE, exc |-> TypeError, value |-> metadata]
             ELSE IF merges THEN [raises |-> TRUE, exc |-> AttributeError, value |-> metadata]
             ELSE [raises |-> FALSE, exc |-> NoExc, value |-> metadata]
        ELSE [raises |-> FALSE, exc |-> NoExc,
              value |-> DictOf(IF merges THEN DictUpdate(with_id, data.engram_metadata.entries)
                               ELSE with_id)]

\* MemoryResponse.from_dict: what the call returns or raises
MemoryFromDict(data) ==
    IF MemoryMetadata(data).raises THEN Raised(MemoryMetadata(data).exc)
    ELSE Mapped(FromDict(Doc(data.id, data.engram_id, data.content)).id,
                FromDict(Doc(data.id, data.engram_id, data.content)).content,
                MemoryMetadata(data).value,
                GetContainer(data.collection_ids, EmptyList),
                EmptyList, None)

MemoryDataAfter_Consuming(data) == [data EXCEPT !.engram_id = Absent]

\* MemoryResponse.from_dict: the caller's data once the call has ended; the
\* writes into metadata land in data["metadata"], the same object
MemoryDataAfter(data) ==
    IF data.metadata.st = "dict" /\ ~MemoryMetadata(data).raises
    THEN [data EXCEPT !.metadata = MemoryMetadata(data).value]
    ELSE data

\* Collection.from_dict: id and name read with defaults, metadata built anew
CollectionMapped(data) ==
    Mapped(CollectionFromDict(Doc(data.id, data.engram_id, data.content)).id,
           CollectionFromDict(Doc(data.id, data.engram_id, data.content)).content,
           DictOf([NoEntries EXCEPT !["k"] = "engram_count"]),
           EmptyList, EmptyList, None)

\* SearchResult.from_dict: float(data.get("score", 0.0)) raises on null;
\* metadata is data.get("metadata", {}) or {}
SearchFromDict(data) ==
    IF data.score = None THEN Raised(TypeError)
    ELSE Mapped(LET rid == IF Truthy(Get(data, "id", None)) THEN data.id ELSE "" IN PyStr(rid),
                IF Truthy(Get(data, "content", None)) THEN data.content ELSE None,
                IF ContainerTruthy(data.metadata) THEN data.metadata ELSE EmptyDict,
                EmptyList, EmptyList,
                IF data.score = Absent THEN "0.0" ELSE data.score)

\* MemoryRecall.from_dict: every list read with data.get(key, [])
RecallFromDict(data) ==
    Mapped(None, None, EmptyDict, EmptyList,
           GetContainer(data.entities, EmptyList), None)

Mappers ==
    {"MemoryResponse.from_dict", "Collection.from_dict", "SearchResult.from_dict",
     "MemoryRecall.from_dict"}

MapperResult(f, data) ==
    CASE f = "MemoryResponse.from_dict" -> MemoryFromDict(data)
      [] f = "Collection.from_dict" -> CollectionMapped(data)
      [] f = "SearchResult.from_dict" -> SearchFromDict(data)
      [] f = "MemoryRecall.from_dict" -> RecallFromDict(data)
      [] OTHER -> FromGraphDict(data)

MapperDataAfter(f, data) ==
    IF f = "MemoryResponse.from_dict" THEN MemoryDataAfter(data) ELSE data

Scalars == {Absent, None, "m1"}
MetadataInputs ==
    {AbsentKey, Null, EmptyDict, DictOf([NoEntries EXCEPT !["k"] = "1"])}
EngramMetadataInputs == {AbsentKey, Null, DictOf([NoEntries EXCEPT !["k"] = "2"])}
ListInputs == {AbsentKey, Null, ListOf(<<"c1">>)}

RawInputs ==
    {Raw(i, e, "hello", m, em, cs, es, s) :
        i \in Scalars, e \in Scalars, m \in MetadataInputs,
        em \in EngramMetadataInputs, cs \in ListInputs, es \in {AbsentKey, Null},
        s \in {Absent, None, "0.5"}}

\* f(data) is called: it returns or raises, and data is what the call left
CallMapper(f, data) ==
    /\ pc = "idle"
    /\ op' = [name |-> f, memories |-> <<data>>, id |-> None]
    /\ cur' = MapperDataAfter(f, data)
    /\ outcome' = MapperResult(f, data)
    /\ pc' = "done"
    /\ UNCHANGED <<client, ctx, actx, log, resp, mapped, retval, server, batch, calls>>

\* the same mapper is called once more on the same object
MapAgain ==
    /\ pc = "done"
    /\ op.name \in Mappers \cup {"from_graph_dict"}
    /\ calls = <<>>
    /\ calls' = <<[memory |-> op.memories[1], outcome |-> outcome]>>
    /\ outcome' = MapperResult(op.name, cur)
    /\ cur' = MapperDataAfter(op.name, cur)
    /\ UNCHANGED <<client, op, pc, ctx, actx, log, resp, mapped, retval, server, batch>>

NextMapper ==
    \/ pc = "idle" /\ \E f \in Mappers, data \in RawInputs : CallMapper(f, data)
    \/ pc = "idle" /\ \E d \in GraphInputs : CallMapper("from_graph_dict", d)
    \/ MapAgain

SpecMapper == Init /\ [][NextMapper]_vars

\* C21: response mapping is total: for every raw object, whichever optional
\* fields are absent or null, the four from_dict mappers return a read
\* model without raising, and absent metadata, collection ids and result
\* lists come out as empty containers.
C21_MappingTotal ==
    (op.name \in Mappers /\ pc = "done" /\ calls = <<>>) =>
        LET data == op.memories[1] IN
        /\ outcome.kind = "ok"
        /\ (op.name \in {"MemoryResponse.from_dict", "SearchResult.from_dict"}
                /\ data.metadata.st = "absent" /\ ~Truthy(Get(data, "engram_id", None))
                /\ ~ContainerTruthy(data.engram_metadata)
                => outcome.model.metadata = EmptyDict)
        /\ (op.name = "MemoryResponse.from_dict" /\ data.collection_ids.st = "absent"
                => outcome.model.collection_ids = EmptyList)
        /\ (op.name = "MemoryRecall.from_dict" /\ data.entities.st = "absent"
                => outcome.model.entities = EmptyList)

IsMappedTwice == op.name \in Mappers \cup {"from_graph_dict"} /\ pc = "done" /\ calls # <<>>

\* C22: calling a mapper (the four from_dict and from_graph_dict) twice on
\* the same raw payload yields two structurally equal read models (or the
\* same error both times).
C22_MapperIdempotent ==
    IsMappedTwice => calls[1].outcome = outcome

C22_Witness ==
    /\ IsMappedTwice
    /\ op.name = "MemoryResponse.from_dict"
    /\ op.memories[1].engram_id = "m1"
    /\ op.memories[1].metadata = DictOf([NoEntries EXCEPT !["k"] = "1"])
    /\ op.memories[1].engram_metadata = DictOf([NoEntries EXCEPT !["k"] = "2"])
    /\ outcome.kind = "ok"
    /\ outcome.model.metadata.entries["k"] = "2"

\* C27: MemoryResponse.from_dict leaves its input unchanged: after it has
\* returned, data and the mappings nested in it (its metadata) hold exactly
\* the entries they held before, also when data carries engram_id or
\* engram_metadata.
C27_InputUnchanged ==
    (op.name = "MemoryResponse.from_dict" /\ pc = "done" /\ calls = <<>>
        /\ outcome.kind = "ok") =>
        cur = op.memories[1]

-----------------------------------------------------------------------------
(* Content parts on the wire and back: the encoder of the write path         *)
(* (Nebula.store_memory / store_memories) and the chunk parser of            *)
(* MemoryResponse.from_dict.                                                 *)

\* A content part as the caller builds it: a content dataclass
\* (TextContent, ImageContent, AudioContent, DocumentContent), a dict with
\* the same keys, or a plain str.  Absent marks a field the variant lacks.
ContentPartOf(pk, type, text, data, media_type, filename) ==
    [pk |-> pk, type |-> type, text |-> text, data |-> data,
     media_type |-> media_type, filename |-> filename]
TextContent(pk, text) == ContentPartOf(pk, "text", text, Absent, Absent, Absent)
MediaContent(pk, type, data, media_type, filename) ==
    ContentPartOf(pk, type, Absent, data, media_type, filename)
PlainPart(text) == ContentPartOf("str", Absent, text, Absent, Absent, Absent)

\* A JSON object of a content part or of a chunk, by its keys
WireItem(type, text, data, media_type, filename) ==
    [type |-> type, text |-> text, data |-> data, media_type |-> media_type,
     filename |-> filename, content |-> Absent, id |-> Absent, role |-> Absent,
     metadata |-> AbsentKey]

\* the part in API format: a dataclass by its fields, a dict as it is,
\* anything else as a text part
EncodePart(p) ==
    IF p.pk \in {"dataclass", "dict"}
    THEN WireItem(p.type, p.text, p.data, p.media_type, p.filename)
    ELSE WireItem("text", p.text, Absent, Absent, Absent)

\* x or y, for str | None values read with .get
OrElse(x, y) == IF x # Absent /\ Truthy(x) THEN x ELSE y

ParsedChunk(id, content, metadata, role) ==
    [id |-> id, content |-> content, metadata |-> metadata, role |-> role]

\* one dict item of data["chunks"] parsed into a Chunk
ChunkFromItem(item) ==
    ParsedChunk(PyStr(Get(item, "id", "")),
          OrElse(item.content, Get(item, "text", "")),
          GetContainer(item.metadata, EmptyDict),
          Get(item, "role", None))

\* what a Chunk holds under a name: one of its fields, an entry of its
\* metadata, or nothing
ChunkAttr(ch, k) ==
    IF k \in DOMAIN ch THEN ch[k]
    ELSE IF ch.metadata.st = "dict" /\ k \in DOMAIN ch.metadata.entries
         THEN ch.metadata.entries[k]
         ELSE Absent

\* the payload of a part: its text, or its base64 data
PartContent(p) == IF p.type = "text" \/ p.pk = "str" THEN p.text ELSE p.data

MediaTypes == {"image", "audio", "document"}
PartInputs ==
    {TextContent(pk, t) : pk \in {"dataclass", "dict"}, t \in {"hi", "yo", ""}}
    \cup {PlainPart(t) : t \in {"hi", "yo", ""}}
    \cup {MediaContent(pk, ty, d, mt, f) :
            pk \in {"dataclass", "dict"}, ty \in MediaTypes, d \in {"b64", "QUJD"},
            mt \in {"application/octet-stream", "image/png"}, f \in {None, "f.png"}}

\* the write path encodes one part of a content list
CallEncodePart(p) ==
    /\ pc = "idle"
    /\ client = "sync"
    /\ op' = [name |-> "round_trip", memories |-> <<p>>, id |-> None]
    /\ cur' = EncodePart(p)
    /\ pc' = "encoded"
    /\ UNCHANGED <<client, ctx, actx, log, resp, mapped, retval, outcome, server, batch, calls>>

\* the JSON of the part comes back as a chunk of a memory and is parsed
DecodeChunk ==
    /\ pc = "encoded"
    /\ op.name = "round_trip"
    /\ outcome' = ReturnedModel(ChunkFromItem(cur))
    /\ pc' = "done"
    /\ UNCHANGED <<client, op, cur, ctx, actx, log, resp, mapped, retval, server, batch, calls>>

NextRoundTrip ==
    \/ pc = "idle" /\ \E p \in PartInputs : CallEncodePart(p)
    \/ DecodeChunk

SpecRoundTrip == InitWith("sync") /\ [][NextRoundTrip]_vars

IsRoundTrip == op.name = "round_trip" /\ pc = "done"

\* C23: a content part (text, image, audio or document) encoded to its wire
\* representation and decoded back into a chunk keeps its content, its
\* type, its media type and its filename.
C23_RoundTrip ==
    IsRoundTrip =>
        LET p == op.memories[1]
            ch == outcome.model
        IN /\ ch.content = PartContent(p)
           /\ ChunkAttr(ch, "type") = (IF p.pk = "str" THEN "text" ELSE p.type)
           /\ (p.type \in MediaTypes =>
                 /\ ChunkAttr(ch, "media_type") = p.media_type
                 /\ ChunkAttr(ch, "filename") = p.filename)

-----------------------------------------------------------------------------
(* The credential header (_is_nebula_api_key, _build_auth_headers)           *)

MaxTokens == 4     \* longest credential, in tokens

\* A credential is a non-empty str, modelled as a sequence of tokens: the
\* two key prefixes, some other text, and the dot.
Tokens == {"key_", "neb_", "abc", "."}
Credentials == UNION {[1..n -> Tokens] : n \in 1..MaxTokens}

\* candidate.count(".")
CountDots(c) == Cardinality({i \in DOMAIN c : c[i] = "."})

\* candidate.split(".", 1) of a candidate with a dot
FirstDot(c) == CHOOSE i \in DOMAIN c : c[i] = "." /\ \A j \in 1..(i - 1) : c[j] # "."
PublicPart(c) == SubSeq(c, 1, FirstDot(c) - 1)
RawPart(c) == SubSeq(c, FirstDot(c) + 1, Len(c))

\* public_part.startswith(prefix)
StartsWith(s, prefix) == Len(s) > 0 /\ s[1] = prefix

\* the prefixes each client recognizes
KeyPrefixes(cl) == IF cl = "sync" THEN {"key_", "neb_"} ELSE {"key_"}

IsNebulaApiKey(cl, c) ==
    /\ Len(c) > 0
    /\ CountDots(c) = 1
    /\ \E prefix \in KeyPrefixes(cl) : StartsWith(PublicPart(c), prefix)
    /\ Len(RawPart(c)) > 0

\* the header names of a request, in the order they are set
BuildAuthHeaders(cl, c) ==
    (IF IsNebulaApiKey(cl, c) THEN <<"X-API-Key">> ELSE <<"Authorization">>)
        \o <<"Content-Type">>

\* a request is built on a client constructed with credential c
CallBuildAuthHeaders(c) ==
    /\ pc = "idle"
    /\ op' = [name |-> "_build_auth_headers", memories |-> <<c>>, id |-> None]
    /\ outcome' = ReturnedList(BuildAuthHeaders(client, c))
    /\ pc' = "done"
    /\ UNCHANGED <<client, cur, ctx, actx, log, resp, mapped, retval, server, batch, calls>>

NextAuth == pc = "idle" /\ \E c \in Credentials : CallBuildAuthHeaders(c)

SpecAuth == Init /\ [][NextAuth]_vars

CredentialHeaders == {"X-API-Key", "Authorization"}
HeadersSent == {outcome.values[i] : i \in DOMAIN outcome.values}

\* a credential with exactly one dot, a non-empty part after the dot and a
\* first segment starting with key_ or neb_
RecognizedApiKey(c) ==
    /\ CountDots(c) = 1
    /\ Len(RawPart(c)) > 0
    /\ StartsWith(PublicPart(c), "key_") \/ StartsWith(PublicPart(c), "neb_")

\* C24: every request carries exactly one credential header: X-API-Key when
\* the credential has exactly one dot, a non-empty part after the dot and a
\* first segment starting with key_ or neb_, the bearer Authorization header
\* otherwise; the sync and the async client select the same header.
C24_OneCredentialHeader ==
    (op.name = "_build_auth_headers" /\ pc = "done") =>
        LET c == op.memories[1] IN
        /\ HeadersSent \cap CredentialHeaders =
              {IF RecognizedApiKey(c) THEN "X-API-Key" ELSE "Authorization"}
        /\ BuildAuthHeaders("sync", c) = BuildAuthHeaders("async", c)

-----------------------------------------------------------------------------
(* Conversations created from lists of content parts *)

PartContents ==
    {Image,
     List(<<DataclassPart("image", "b64")>>),
     List(<<DictPart("text", "hi"), DataclassPart("audio", "b64")>>),
     List(<<StrPart("a"), StrPart("b")>>),
     Str("hi")}

\* role present, no memory_id: each of them creates a conversation
PartMemories ==
    {Memory("c1", t, r, None) : t \in PartContents, r \in {"user", "assistant"}}

NextParts ==
    \/ pc = "idle" /\ \E m \in PartMemories : CallStoreMemory(m)
    \/ pc = "idle" /\ \E ms \in SeqsUpTo(PartMemories, MaxBatch) : CallStoreMemories(ms)
    \/ StoreMemoriesGroup
    \/ StoreMemoriesAppend
    \/ ReceiveBatchAppend
    \/ StoreMemoriesOthers
    \/ StoreMemoryEntry
    \/ ReceiveCreateConversation
    \/ ReceiveAppend

SpecParts == Init /\ [][NextParts]_vars

\* the first element carries a type discriminator: a dict with a type key
\* or a content-part object with a type attribute
TypedFirst(c) ==
    /\ c.kind = "list" /\ Len(c.parts) > 0
    /\ c.parts[1].pk \in {"dict", "dataclass"}
    /\ c.parts[1].type # None

\* the messages of the requests issued so far, in the order they were sent
RECURSIVE MessagesSent(_)
MessagesSent(k) ==
    IF k > Len(log) THEN <<>>
    ELSE (IF log[k].payload.field = "messages" THEN log[k].payload.messages ELSE <<>>)
            \o MessagesSent(k + 1)

\* C25: when a conversation is created (role present, no memory_id) from a
\* list whose first element carries a type discriminator (a dict with a type
\* key or a content-part object), the message content sent is the list of
\* content parts and not the string form of the list, in store_memory and in
\* store_memories of both clients.
C25_PartsSent ==
    /\ (IsStoreMemory /\ pc = "done" /\ outcome.kind = "ok"
            /\ TypedFirst(TopMemory.content)) =>
            /\ Len(MessagesSent(1)) = 1
            /\ MessagesSent(1)[1].content.kind = "list"
    /\ BatchReturned =>
            /\ Len(MessagesSent(1)) = Len(op.memories)
            /\ \A i \in DOMAIN op.memories :
                  TypedFirst(op.memories[i].content) =>
                      MessagesSent(1)[i].content.kind = "list"

-----------------------------------------------------------------------------
(* Two calls in flight on one client.  Everything store_memory and           *)
(* store_memories keep between their requests is in locals of the call       *)
(* (conv_groups, conv_id, results): a frame holds them.  The client object   *)
(* and the service are shared; the calls take their steps in any order.      *)

Frames == {1, 2}
OtherFrame(f) == 3 - f

NoFrame ==
    [name |-> "idle", memories |-> <<>>, pc |-> "idle", groups |-> <<>>, gi |-> 1,
     conv_id |-> None, created |-> <<>>, sent |-> <<>>, got |-> <<>>,
     results |-> <<>>, outcome |-> NoOutcome]

\* role-bearing requests without memory_id
ConcMemories ==
    {Memory("c1", Str("hi"), "user", None), Memory("c2", Str("there"), "assistant", None)}

InitConc ==
    /\ client \in Clients
    /\ op = NoOp
    /\ pc = "idle"
    /\ cur = NoMemory
    /\ ctx = "top"
    /\ actx = "direct"
    /\ log = <<>>
    /\ resp = NoResp
    /\ mapped = NoExc
    /\ retval = None
    /\ outcome = NoOutcome
    /\ server = ServerInit
    /\ batch = NoBatch
    /\ calls = [f \in Frames |-> NoFrame]

\* the members of the group the frame is at
FrameGroup(fr) == [j \in DOMAIN fr.groups[fr.gi].members |->
                      fr.memories[fr.groups[fr.gi].members[j]]]

\* the create request of the frame: store_memory creates from its memory,
\* store_memories from a placeholder with empty content
FrameCreateRequest(cl, fr) ==
    IF fr.name = "store_memory"
    THEN StoreMemoryDecision(cl, fr.memories[1]).req
    ELSE StoreMemoryDecision(cl, Memory(FrameGroup(fr)[1].collection_id, Str(""),
                                        "assistant", None)).req

\* does an append follow the create
FrameAppends(cl, fr) ==
    IF fr.name = "store_memory"
    THEN cl = "async" /\ ContentTruthy(fr.memories[1].content) /\ Truthy(fr.memories[1].role)
    ELSE TRUE

AppendTarget_Shared(f) == NewIdSeq[server.next - 1]

\* the identifier the frame appends to: its local conv_id
AppendTarget(f) == calls[f].conv_id

FrameAppendRequest(cl, fr, target) ==
    IF fr.name = "store_memory"
    THEN AppendDecision(cl, target, FirstMessageMemory(fr.memories[1], target)).req
    ELSE BatchAppendRequest(cl, target, FrameGroup(fr))

\* a call enters store_memory or store_memories (the grouping loop)
FrameCall(f, name, ms) ==
    /\ calls[f].pc = "idle"
    /\ calls' = [calls EXCEPT ![f] =
                    [NoFrame EXCEPT !.name = name, !.memories = ms,
                                    !.groups = ConvGroups(ms, 1, <<>>),
                                    !.pc = "create"]]
    /\ UNCHANGED <<client, op, pc, cur, ctx, actx, log, resp, mapped, retval, outcome,
                   server, batch>>

\* the call sends its create-conversation request
FrameCreate(f) ==
    /\ calls[f].pc = "create"
    /\ LET q == FrameCreateRequest(client, calls[f]) IN
        /\ log' = Append(log, q)
        /\ calls' = [calls EXCEPT ![f].sent = Append(@, q), ![f].pc = "wait_create"]
    /\ UNCHANGED <<client, op, pc, cur, ctx, actx, resp, mapped, retval, outcome,
                   server, batch>>

\* the response to the create arrives in the call that sent it
FrameCreated(f) ==
    /\ calls[f].pc = "wait_create"
    /\ \E r \in Responses(server, Last(calls[f].sent)) :
        LET e == Transport(Last(calls[f].sent), r)
            fr == calls[f]
        IN
        /\ server' = IF Accepted(r) THEN ServerApply(server, Last(fr.sent)) ELSE server
        /\ IF e # NoExc
           THEN calls' = [calls EXCEPT ![f].pc = "done", ![f].outcome = Raised(e),
                                       ![f].got = Append(@, "failed")]
           ELSE IF ~r.wrapped \/ r.keys = {}
           THEN calls' = [calls EXCEPT ![f].pc = "done",
                                       ![f].outcome = Raised(ClientError),
                                       ![f].got = Append(@, "no id")]
           ELSE IF FrameAppends(client, fr)
           THEN calls' = [calls EXCEPT ![f].pc = "append", ![f].conv_id = r.id,
                                       ![f].created = Append(@, r.id),
                                       ![f].got = Append(@, "ok")]
           ELSE calls' = [calls EXCEPT ![f].pc = "done", ![f].conv_id = r.id,
                                       ![f].created = Append(@, r.id),
                                       ![f].got = Append(@, "ok"),
                                       ![f].outcome = Returned(r.id)]
    /\ UNCHANGED <<client, op, pc, cur, ctx, actx, log, resp, mapped, retval, outcome,
                   batch>>

\* the call sends the append that follows its create
FrameAppend(f) ==
    /\ calls[f].pc = "append"
    /\ LET q == FrameAppendRequest(client, calls[f], AppendTarget(f)) IN
        /\ log' = Append(log, q)
        /\ calls' = [calls EXCEPT ![f].sent = Append(@, q), ![f].pc = "wait_append"]
    /\ UNCHANGED <<client, op, pc, cur, ctx, actx, resp, mapped, retval, outcome,
                   server, batch>>

\* the response to the append arrives in the call that sent it
FrameAppended(f) ==
    /\ calls[f].pc = "wait_append"
    /\ \E r \in Responses(server, Last(calls[f].sent)) :
        LET e == MakeRequest(r)
            fr == calls[f]
            results == fr.results \o [j \in DOMAIN fr.groups[fr.gi].members |-> fr.conv_id]
        IN
        /\ server' = IF Accepted(r) THEN ServerApply(server, Last(fr.sent)) ELSE server
        /\ IF e # NoExc
           THEN calls' = [calls EXCEPT ![f].pc = "done",
                             ![f].outcome = Raised(NotFoundOn404(e, Last(fr.sent).id, "Memory")),
                             ![f].got = Append(@, "failed")]
           ELSE IF fr.name = "store_memory"
           THEN calls' = [calls EXCEPT ![f].pc = "done", ![f].got = Append(@, "ok"),
                                       ![f].outcome = Returned(fr.conv_id)]
           ELSE IF fr.gi < Len(fr.groups)
           THEN calls' = [calls EXCEPT ![f].pc = "create", ![f].got = Append(@, "ok"),
                                       ![f].results = results, ![f].gi = @ + 1]
           ELSE calls' = [calls EXCEPT ![f].pc = "done", ![f].got = Append(@, "ok"),
                                       ![f].results = results, ![f].gi = @ + 1,
                                       ![f].outcome = ReturnedList(results)]
    /\ UNCHANGED <<client, op, pc, cur, ctx, actx, log, resp, mapped, retval, outcome,
                   batch>>

NextConc ==
    \/ \E f \in Frames, m \in ConcMemories : FrameCall(f, "store_memory", <<m>>)
    \/ \E f \in Frames, ms \in SeqsUpTo(ConcMemories, 2) \ {<<>>} :
            FrameCall(f, "store_memories", ms)
    \/ \E f \in Frames : FrameCreate(f)
    \/ \E f \in Frames : FrameCreated(f)
    \/ \E f \in Frames : FrameAppend(f)
    \/ \E f \in Frames : FrameAppended(f)

SpecConc == InitConc /\ [][NextConc]_vars

CreatedBy(f) == {calls[f].created[i] : i \in DOMAIN calls[f].created}

\* the number of create requests among the first k requests of a frame
RECURSIVE CreatesBefore(_, _)
CreatesBefore(sent, k) ==
    IF k = 0 THEN 0
    ELSE CreatesBefore(sent, k - 1)
            + (IF sent[k].kind = "create_conversation" THEN 1 ELSE 0)

\* C26: two store_memory / store_memories calls with role-bearing requests
\* without memory_id, interleaved on one client, share no mutable state:
\* each call creates its own conversations, every append it issues targets
\* the conversation that same call created last, and a failure of one
\* call changes neither the requests of the other nor its result (a call
\* raises only for a response it received itself, and returns its own
\* identifiers when all its own responses were successes).
C26_CallsIndependent ==
    \A f \in Frames :
        LET fr == calls[f] IN
        /\ CreatedBy(f) \cap CreatedBy(OtherFrame(f)) = {}
        /\ \A k \in DOMAIN fr.sent :
              fr.sent[k].kind = "append" =>
                  /\ CreatesBefore(fr.sent, k) \in DOMAIN fr.created
                  /\ fr.sent[k].id = fr.created[CreatesBefore(fr.sent, k)]
        /\ fr.outcome.kind = "error" => Last(fr.got) # "ok"
        /\ (fr.pc = "done" /\ \A i \in DOMAIN fr.got : fr.got[i] = "ok") =>
              /\ fr.outcome.kind = "ok"
              /\ Len(fr.created) = Len(fr.groups)
              /\ IF fr.name = "store_memory"
                 THEN fr.outcome.value = fr.created[1]
                 ELSE /\ Len(fr.outcome.values) = Len(fr.memories)
                      /\ \A i \in DOMAIN fr.memories :
                            \E g \in DOMAIN fr.groups :
                                /\ \E j \in DOMAIN fr.groups[g].members :
                                        fr.groups[g].members[j] = i
                                /\ fr.outcome.values[i] \in CreatedBy(f)

\* the creates of the two calls went out one after the other, the first
\* call then appended to its own conversation and failed there, and the
\* second call returned the conversation it created
C26_Witness ==
    /\ calls[1].name = "store_memories" /\ calls[2].name = "store_memories"
    /\ Len(log) >= 4 /\ Len(calls[1].sent) = 2 /\ Len(calls[2].sent) = 2
    /\ log[1] = calls[1].sent[1] /\ log[2] = calls[2].sent[1]
    /\ log[1].kind = "create_conversation" /\ log[2].kind = "create_conversation"
    /\ calls[1].created = <<"n1">> /\ calls[2].created = <<"n2">>
    /\ log[3].kind = "append" /\ log[3].id = "n1"
    /\ calls[1].pc = "done" /\ calls[1].outcome.kind = "error"
    /\ calls[2].pc = "done" /\ calls[2].outcome = ReturnedList(<<"n2">>)

-----------------------------------------------------------------------------
(* Targets of the requests of a batch *)

\* the memory_ids the requests of the batch supply
SuppliedIds == {op.memories[i].memory_id : i \in {j \in DOMAIN op.memories :
                                                    Truthy(op.memories[j].memory_id)}}

\* the create-conversation requests issued so far
ConversationCreates == {k \in DOMAIN log : log[k].kind = "create_conversation"}

\* C28: in store_memories a role-bearing request that has a memory_id is
\* appended to exactly that memory_id and never causes a create-conversation
\* operation, whatever the memory_id is (also one that begins with the
\* new-conversation marker); a role-bearing request without memory_id is
\* never appended to an identifier another request of the batch supplied.
C28_TargetIsOwnId ==
    IsStoreMemories =>
        LET ms == op.memories IN
        /\ (\A i \in DOMAIN ms : Truthy(ms[i].role) => Truthy(ms[i].memory_id))
                => ConversationCreates = {}
        /\ \A i \in DOMAIN ms :
              (Truthy(ms[i].role) /\ Truthy(ms[i].memory_id) /\ batch.dest[i] # None)
                  => batch.dest[i] = ms[i].memory_id
        /\ \A i \in DOMAIN ms :
              (Truthy(ms[i].role) /\ ~Truthy(ms[i].memory_id))
                  => batch.dest[i] \notin SuppliedIds


\* a batched append of store_memories is in flight
BatchAppendInFlight ==
    /\ IsStoreMemories /\ pc = "wait"
    /\ actx \in {"batch", "batch_sync"}
    /\ Last(log).kind = "append"

\* C29: in store_memories every message of a batched append is sent under
\* the collection id of its own request: when role-bearing requests sharing
\* one memory_id name different collection ids, no message is sent under the
\* collection id of another request.
C29_OwnCollection ==
    BatchAppendInFlight =>
        /\ Len(Last(log).payload.messages) = Len(GroupMemories)
        /\ \A j \in DOMAIN GroupMemories :
              Last(log).payload.collection = GroupMemories[j].collection_id

-----------------------------------------------------------------------------
(* search: the collection restriction of the request *)

MaxIds == 3        \* longest collection_ids list given to search

\* identifiers a caller may pass: names, the empty str, a blank str
SearchIds == {"c1", "c2", "", " "}

\* str(cid).strip()
Strip(s) == IF s = " " THEN "" ELSE s

\* collection_ids: None, or a list of identifiers
NoCollectionIds == [given |-> FALSE, ids |-> <<>>]
CollectionIds(ids) == [given |-> TRUE, ids |-> ids]
CollectionIdInputs ==
    {NoCollectionIds} \cup {CollectionIds(ids) : ids \in SeqsUpTo(SearchIds, MaxIds)}

\* [cid for cid in collection_ids if cid and str(cid).strip()]
RECURSIVE ValidCollectionIds(_)
ValidCollectionIds(ids) ==
    IF ids = <<>> THEN <<>>
    ELSE (IF Head(ids) # "" /\ Strip(Head(ids)) # "" THEN <<Head(ids)>> ELSE <<>>)
            \o ValidCollectionIds(Tail(ids))

\* The search request: "at" is where the restriction is put (the key
\* collection_ids of the body in Nebula, the filter collection_ids.$overlap
\* of the search settings in AsyncNebula), "none" when there is none.
SearchRequest(cl, c) ==
    LET valid == ValidCollectionIds(c.ids)
        restricted == c.given /\ Len(c.ids) > 0 /\ Len(valid) > 0
    IN [kind |-> "search", via |-> "make_request", id |-> None,
        payload |-> [at |-> IF ~restricted THEN "none"
                            ELSE IF cl = "sync" THEN "collection_ids"
                            ELSE "filters.collection_ids.$overlap",
                     ids |-> IF restricted THEN valid ELSE <<>>]]

\* the service answers a search with results, wrapped or not, or refuses
SearchResponses ==
    {TransportFailure}
    \cup {Http(st, TRUE, {}, None) : st \in ErrorStatuses}
    \cup {Http(st, w, {}, None) : st \in SuccessStatuses, w \in BOOLEAN}

\* client.search(query, collection_ids=c) sends its request
CallSearch(c) ==
    /\ pc = "idle"
    /\ op' = [name |-> "search", memories |-> <<c>>, id |-> None]
    /\ log' = Append(log, SearchRequest(client, c))
    /\ pc' = "wait"
    /\ UNCHANGED <<client, cur, ctx, actx, resp, mapped, retval, outcome, server, batch, calls>>

\* the response arrives: a MemoryRecall is returned (mapped from the
\* results, or the empty fallback), or the exception of the transport
ReceiveSearch ==
    /\ pc = "wait"
    /\ Last(log).kind = "search"
    /\ \E r \in SearchResponses :
        /\ resp' = r
        /\ mapped' = MakeRequest(r)
        /\ outcome' = IF MakeRequest(r) # NoExc THEN Raised(MakeRequest(r))
                      ELSE IF r.wrapped THEN Returned("MemoryRecall")
                      ELSE Returned("empty MemoryRecall")
    /\ pc' = "done"
    /\ UNCHANGED <<client, op, cur, ctx, actx, log, retval, server, batch, calls>>

NextSearch ==
    \/ pc = "idle" /\ \E c \in CollectionIdInputs : CallSearch(c)
    \/ ReceiveSearch

SpecSearch == Init /\ [][NextSearch]_vars

ElementsOf(s) == {s[i] : i \in DOMAIN s}

\* C30: whenever search is called with a non-empty collection_ids list, the
\* request sent carries a collection restriction made only of identifiers
\* from that list; it never goes out unrestricted, also when every supplied
\* identifier is empty or whitespace.
C30_SearchRestricted ==
    (op.name = "search" /\ Len(log) > 0
        /\ op.memories[1].given /\ Len(op.memories[1].ids) > 0) =>
        /\ log[1].payload.at # "none"
        /\ ElementsOf(log[1].payload.ids) # {}
        /\ ElementsOf(log[1].payload.ids) \subseteq ElementsOf(op.memories[1].ids)

====
